---------------------------- MODULE Spec2Model ----------------------------
(***************************************************************************)
(* A model of the discrete factor algebra and junction-tree engine of the  *)
(* sill library: finite domains, dense-table factors (table_factor), the   *)
(* junction tree with its structural edits, and the Shafer-Shenoy / Hugin  *)
(* calibration engines.                                                    *)
(*                                                                         *)
(* Real numbers (double) are modelled as exact rationals <<n, d>> in       *)
(* lowest terms with d > 0, so that "equal within 1e-10" becomes equality. *)
(***************************************************************************)
EXTENDS Integers, Sequences, FiniteSets, TLC

(***************************************************************************)
(* Bounds of the model.                                                    *)
(***************************************************************************)
\* Number of different potential tables an input factor is drawn from.
NumSeeds == 2
\* Number of potential changes / conditionings in one behaviour.
MaxChanges == 2
\* Number of vertices a junction tree under structural edit may hold.
MaxVertices == 4
\* Number of variables the cliques of a tree under structural edit draw from.
NumEditVars == 2

\* finite_variable::size(): the number of values of a variable.
VarSize(v) == IF v > 100 THEN v - 100 ELSE IF v = 3 THEN 3 ELSE 2

(***************************************************************************)
(* Exact arithmetic for table_factor::result_type (double).  A finite      *)
(* value is a rational <<n, d>> in lowest terms with d > 0; the values     *)
(* that are not finite have d = 0: <<1, 0>> is +infinity, <<-1, 0>> is     *)
(* -infinity and <<0, 0>> is NaN.  Signed zeros are not distinguished.     *)
(***************************************************************************)
Abs(x) == IF x < 0 THEN -x ELSE x

RECURSIVE GCD(_, _)
GCD(a, b) == IF b = 0 THEN a ELSE GCD(b, a % b)

\* The rational n/d in lowest terms with positive denominator; with d = 0,
\* the infinity of the sign of n, or NaN for 0/0.
Rat(n, d) ==
  IF d = 0 THEN <<(IF n > 0 THEN 1 ELSE IF n < 0 THEN -1 ELSE 0), 0>>
  ELSE LET s == IF d < 0 THEN -1 ELSE 1
           g == GCD(Abs(n), Abs(d))
       IN  <<(s * n) \div g, (s * d) \div g>>

Zero == <<0, 1>>
One == <<1, 1>>
Inf == <<1, 0>>
NegInf == <<-1, 0>>
NaN == <<0, 0>>

\* x < y on doubles: false whenever an operand is NaN.
RLess(x, y) ==
  IF x = NaN \/ y = NaN THEN FALSE
  ELSE IF x[2] = 0 /\ y[2] = 0 THEN x[1] < y[1]
  ELSE x[1] * y[2] < y[1] * x[2]

plus(x, y) ==
  IF x[2] # 0 /\ y[2] # 0 THEN Rat(x[1] * y[2] + y[1] * x[2], x[2] * y[2])
  ELSE IF x[2] = 0 /\ y[2] = 0 THEN (IF x = y THEN x ELSE NaN)
  ELSE IF x[2] = 0 THEN x ELSE y
minus(x, y) == plus(x, <<-y[1], y[2]>>)
multiplies(x, y) == Rat(x[1] * y[1], x[2] * y[2])
\* x / y on doubles: a finite value over zero is an infinity, 0/0 is NaN.
divides(x, y) ==
  multiplies(x, IF y[1] = 0 THEN (IF y[2] = 0 THEN NaN ELSE Inf)
                ELSE IF y[2] = 0 THEN Zero ELSE Rat(y[2], y[1]))
\* Division by a structural zero yields 0.
safe_divides(x, y) == IF y = Zero THEN Zero ELSE divides(x, y)
maximum(x, y) == IF RLess(x, y) THEN y ELSE x
minimum(x, y) == IF RLess(y, x) THEN y ELSE x
logical_and(x, y) == IF x # Zero /\ y # Zero THEN One ELSE Zero
logical_or(x, y) == IF x # Zero \/ y # Zero THEN One ELSE Zero
\* is_positive_finite(x): x > 0 and x is neither an infinity nor NaN.
is_positive_finite(x) == x[2] # 0 /\ x[1] > 0

\* op_type dispatched to its functor.
to_functor(op, x, y) ==
  CASE op = "sum_op" -> plus(x, y)
    [] op = "minus_op" -> minus(x, y)
    [] op = "product_op" -> multiplies(x, y)
    [] op = "divides_op" -> safe_divides(x, y)
    [] op = "max_op" -> maximum(x, y)
    [] op = "min_op" -> minimum(x, y)
    [] op = "and_op" -> logical_and(x, y)
    [] op = "or_op" -> logical_or(x, y)

(***************************************************************************)
(* Domains: std::set of variables, iterated in ascending order.            *)
(***************************************************************************)
Range(s) == {s[i] : i \in 1..Len(s)}

Min(S) == CHOOSE x \in S : \A y \in S : x <= y

\* The elements of a domain in iteration order.
RECURSIVE SetToSeq(_)
SetToSeq(S) == IF S = {} THEN <<>> ELSE <<Min(S)>> \o SetToSeq(S \ {Min(S)})

intersection(a, b) == a \cap b
\* Faulty variant of set_union: only the common elements.
set_union_common(a, b) == a \cap b
set_union(a, b) == a \cup b
difference(a, b) == a \ b
includes(a, b) == b \subseteq a

(***************************************************************************)
(* dense_table: a shape (geometry) and the elements in linear order, the   *)
(* first dimension varying fastest.  Indices and offsets are 0-based as in *)
(* the code; elts is a TLA+ sequence, so the cell at offset k is elts[k+1].*)
(***************************************************************************)
RECURSIVE ShapeSize(_)
ShapeSize(shape) ==
  IF shape = <<>> THEN 1 ELSE Head(shape) * ShapeSize(Tail(shape))

\* The stride of dimension i (1-based position in the shape).
Stride(shape, i) == ShapeSize(SubSeq(shape, 1, i - 1))

RECURSIVE SumTo(_, _)
SumTo(f, n) == IF n = 0 THEN 0 ELSE f[n] + SumTo(f, n - 1)

\* The linear offset of a multi-dimensional index.
Offset(shape, index) ==
  SumTo([i \in 1..Len(shape) |-> index[i] * Stride(shape, i)], Len(shape))

\* The multi-dimensional index of a linear offset.
IndexOf(shape, k) ==
  [i \in 1..Len(shape) |-> (k \div Stride(shape, i)) % shape[i]]

dense_table(geometry, default_value) ==
  [shape |-> geometry,
   elts |-> [k \in 1..ShapeSize(geometry) |-> default_value]]

\* dense_table::join: the result cell at index idx is op(x[idx o x_map],
\* y[idx o y_map]), where the maps send each dimension of an operand to a
\* dimension of the result.
table_join(shape, x, y, x_dim_map, y_dim_map, op) ==
  [shape |-> shape,
   elts |-> [k \in 1..ShapeSize(shape) |->
      LET idx == IndexOf(shape, k - 1)
          xi == [i \in 1..Len(x.shape) |-> idx[x_dim_map[i] + 1]]
          yi == [i \in 1..Len(y.shape) |-> idx[y_dim_map[i] + 1]]
      IN  to_functor(op, x.elts[Offset(x.shape, xi) + 1],
                         y.elts[Offset(y.shape, yi) + 1])]]

\* dense_table::join_with: the table is updated in place, cell by cell, with
\* the matching cell of y.
table_join_with(t, y, y_dim_map, op) ==
  [shape |-> t.shape,
   elts |-> [k \in 1..Len(t.elts) |->
      LET idx == IndexOf(t.shape, k - 1)
          yi == [i \in 1..Len(y.shape) |-> idx[y_dim_map[i] + 1]]
      IN  to_functor(op, t.elts[k], y.elts[Offset(y.shape, yi) + 1])]]

\* The fold of the source cells that project onto the target cell at offset
\* j, taken in the linear order of the source, starting from acc.
RECURSIVE AggregateCell(_, _, _, _, _, _, _)
AggregateCell(src, dst_shape, dim_map, agg_op, j, k, acc) ==
  IF k > Len(src.elts) THEN acc
  ELSE LET sidx == IndexOf(src.shape, k - 1)
           didx == [i \in 1..Len(dst_shape) |-> sidx[dim_map[i] + 1]]
       IN  AggregateCell(src, dst_shape, dim_map, agg_op, j, k + 1,
             IF Offset(dst_shape, didx) = j
               THEN to_functor(agg_op, acc, src.elts[k]) ELSE acc)

\* dense_table::aggregate: dim_map sends each dimension of the target to a
\* dimension of the source.
table_aggregate(dst, src, dim_map, agg_op) ==
  [shape |-> dst.shape,
   elts |-> [j \in 1..Len(dst.elts) |->
      AggregateCell(src, dst.shape, dim_map, agg_op, j - 1, 1, dst.elts[j])]]

\* The marker of a retained dimension in a restrict map
\* (std::numeric_limits<size_t>::max() in the code).
retained_dim == -1

\* dense_table::restrict: restrict_map gives, for each source dimension, the
\* fixed value or retained_dim; dim_map sends each target dimension to its
\* source dimension.
table_restrict(dst_shape, src, restrict_map, dim_map) ==
  [shape |-> dst_shape,
   elts |-> [k \in 1..ShapeSize(dst_shape) |->
      LET didx == IndexOf(dst_shape, k - 1)
          sidx == [i \in 1..Len(src.shape) |->
                     IF restrict_map[i] = retained_dim
                       THEN didx[CHOOSE j \in 1..Len(dst_shape) :
                                   dim_map[j] = i - 1]
                       ELSE restrict_map[i]]
      IN  src.elts[Offset(src.shape, sidx) + 1]]]

(***************************************************************************)
(* table_factor: args (the argument set), arg_seq (the arguments in the    *)
(* order of the table's dimensions), var_index (variable -> dimension) and *)
(* table_data.                                                             *)
(***************************************************************************)
\* table_factor::initialize.
initialize(arguments, default_value) ==
  [arg_seq |-> arguments,
   var_index |-> [v \in Range(arguments) |->
                    (CHOOSE i \in 1..Len(arguments) : arguments[i] = v) - 1],
   table_data |-> dense_table([i \in 1..Len(arguments) |->
                                 VarSize(arguments[i])], default_value)]

\* table_factor(arguments, default_value) for a domain of arguments.
table_factor(arguments, default_value) ==
  LET f == initialize(SetToSeq(arguments), default_value)
  IN  [args |-> arguments, arg_seq |-> f.arg_seq,
       var_index |-> f.var_index, table_data |-> f.table_data]

\* table_factor(c): the constant factor with no arguments.
constant_table_factor(c) == table_factor({}, c)

make_dim_map(vars, to_map) == [i \in 1..Len(vars) |-> to_map[vars[i]]]

\* A faulty restrict map: every assigned dimension is fixed to value 0.
make_restrict_map_zero(vars, a) ==
  [i \in 1..Len(vars) |-> IF vars[i] \in DOMAIN a THEN 0 ELSE retained_dim]

make_restrict_map(vars, a) ==
  [i \in 1..Len(vars) |->
     IF vars[i] \in DOMAIN a THEN a[vars[i]] ELSE retained_dim]

\* The flattened index of a multi-dimensional index when the first
\* dimension is the most significant digit: ((i1 * n2 + i2) * n3 + i3) ...
RECURSIVE msd_index(_, _, _)
msd_index(shape, index, n) ==
  IF n = 0 THEN 0
  ELSE msd_index(shape, index, n - 1) * shape[n] + index[n]

\* A faulty make_dense_table_factor that lays the values out with the first
\* variable of the sequence varying slowest.
make_dense_table_factor_slowest(arguments, vals) ==
  LET f == initialize(arguments, Zero)
      shape == f.table_data.shape
  IN  [args |-> Range(arguments), arg_seq |-> f.arg_seq,
       var_index |-> f.var_index,
       table_data |-> [shape |-> shape,
          elts |-> [k \in 1..Len(vals) |->
             vals[msd_index(shape, IndexOf(shape, k - 1), Len(shape)) + 1]]]]

\* make_dense_table_factor: the values are laid out with the first variable
\* of the sequence varying fastest.
make_dense_table_factor(arguments, vals) ==
  LET f == initialize(arguments, Zero)
  IN  [args |-> Range(arguments), arg_seq |-> f.arg_seq,
       var_index |-> f.var_index,
       table_data |-> [shape |-> f.table_data.shape, elts |-> vals]]

\* operator()(a) / v(a): the value at an assignment covering the arguments.
v(f, a) ==
  f.table_data.elts[Offset(f.table_data.shape,
     [i \in 1..Len(f.arg_seq) |-> a[f.arg_seq[i]]]) + 1]

\* A faulty combine that takes the operands in the other order.
combine_swapped(x, y, op) ==
  LET arguments == set_union(x.args, y.args)
      factor == table_factor(arguments, Zero)
  IN  [factor EXCEPT !.table_data =
         table_join(factor.table_data.shape, y.table_data, x.table_data,
                    make_dim_map(y.arg_seq, factor.var_index),
                    make_dim_map(x.arg_seq, factor.var_index), op)]

\* combine(x, y, op): the arguments are the union; the table is the join.
combine(x, y, op) ==
  LET arguments == set_union(x.args, y.args)
      factor == table_factor(arguments, Zero)
  IN  [factor EXCEPT !.table_data =
         table_join(factor.table_data.shape, x.table_data, y.table_data,
                    make_dim_map(x.arg_seq, factor.var_index),
                    make_dim_map(y.arg_seq, factor.var_index), op)]

\* A faulty collapse that returns a copy whatever is retained.
collapse_copy(f, agg_op, initialvalue, retained) == f

\* collapse(agg_op, initialvalue, retained): the factor itself when every
\* argument is retained, else the aggregate over the dropped arguments.
collapse(f, agg_op, initialvalue, retained) ==
  IF includes(retained, f.args) THEN f
  ELSE LET newargs == intersection(f.args, retained)
           factor == table_factor(newargs, initialvalue)
       IN  [factor EXCEPT !.table_data =
              table_aggregate(factor.table_data, f.table_data,
                 make_dim_map(factor.arg_seq, f.var_index), agg_op)]

\* A faulty marginal: the largest cell instead of the sum.
marginal_max(f, retain) == collapse(f, "max_op", Zero, retain)

marginal(f, retain) == collapse(f, "sum_op", Zero, retain)

\* A faulty combine_in that always builds the general combination.
combine_in_rebuilt(f, y, op) == combine(f, y, op)

\* The in-place operators: join_with when the arguments of y are among the
\* factor's own, else the factor is replaced by the general combination.
combine_in(f, y, op) ==
  IF includes(f.args, y.args)
    THEN [f EXCEPT !.table_data =
            table_join_with(f.table_data, y.table_data,
                            make_dim_map(y.arg_seq, f.var_index), op)]
    ELSE combine(f, y, op)

\* operator*= and operator/=.
times_assign(f, y) == combine_in(f, y, "product_op")
\* Faulty variant of operator/=: multiplies instead of dividing.
divide_assign_product(f, y) == combine_in(f, y, "product_op")
divide_assign(f, y) == combine_in(f, y, "divides_op")

\* restrict(a): the arguments not assigned by a are retained; a copy when
\* none is assigned.
restrict(f, a) ==
  LET retained == {x \in f.args : x \notin DOMAIN a}
  IN  IF Cardinality(retained) = Cardinality(f.args) THEN f
      ELSE LET factor == table_factor(retained, Zero)
           IN  [factor EXCEPT !.table_data =
                  table_restrict(factor.table_data.shape, f.table_data,
                     make_restrict_map(f.arg_seq, a),
                     make_dim_map(factor.arg_seq, f.var_index))]

RECURSIVE SumElts(_, _)
SumElts(elts, n) ==
  IF n = 0 THEN Zero ELSE plus(SumElts(elts, n - 1), elts[n])

\* norm_constant(): the sum of all the cells.
norm_constant(f) == SumElts(f.table_data.elts, Len(f.table_data.elts))

is_normalizable(f) == is_positive_finite(norm_constant(f))

\* normalize(), for a normalizable factor: every cell divided by the
\* normalization constant.
normalize(f) ==
  LET z == norm_constant(f)
  IN  [f EXCEPT !.table_data.elts =
         [k \in 1..Len(f.table_data.elts) |->
            divides(f.table_data.elts[k], z)]]

\* x == y on doubles: NaN is equal to nothing, itself included.
double_equal(x, y) == x # NaN /\ y # NaN /\ x = y

\* A faulty operator== that compares the two tables cell by cell in their
\* own linear orders.
factor_equal_tables(f, g) ==
  /\ f.args = g.args
  /\ \A k \in 1..Len(f.table_data.elts) :
       double_equal(f.table_data.elts[k], g.table_data.elts[k])

\* operator==: same argument set and the same value at every assignment,
\* whatever the order of the dimensions.
factor_equal(f, g) ==
  /\ f.args = g.args
  /\ IF f.arg_seq = g.arg_seq
       THEN /\ f.table_data.shape = g.table_data.shape
            /\ \A k \in 1..Len(f.table_data.elts) :
                 double_equal(f.table_data.elts[k], g.table_data.elts[k])
     ELSE \A k \in 1..Len(f.table_data.elts) :
            LET idx == IndexOf(f.table_data.shape, k - 1)
                gi == [i \in 1..Len(g.arg_seq) |->
                         idx[f.var_index[g.arg_seq[i]] + 1]]
            IN  double_equal(f.table_data.elts[k],
                  g.table_data.elts[Offset(g.table_data.shape, gi) + 1])

(***************************************************************************)
(* Junction tree: the cliques (a function on the vertices present), the    *)
(* undirected edges (two-element sets of vertices) and the separator of    *)
(* each edge.  The class itself is not among the sources; its operations   *)
(* follow the published contract and the calls made by the structure       *)
(* search (decomposable_iterator).                                         *)
(***************************************************************************)
empty_tree == [cliques |-> [x \in {} |-> {}], edges |-> {},
               sep |-> [x \in {} |-> {}]]

vertices(t) == DOMAIN t.cliques

neighbors(t, u) == {w \in vertices(t) : {u, w} \in t.edges}

\* The separators of a tree with the given cliques and edges.
separators(cliques, edges) ==
  [e \in edges |->
     LET u == CHOOSE x \in e : TRUE
         w == CHOOSE x \in e : x # u
     IN  intersection(cliques[u], cliques[w])]

\* add_vertex(clique) as vertex u, a vertex not in the tree.
add_vertex(t, u, clique) ==
  [t EXCEPT !.cliques =
     [x \in vertices(t) \cup {u} |-> IF x = u THEN clique ELSE t.cliques[x]]]

\* remove_edge(u, w).
remove_edge(t, u, w) ==
  [t EXCEPT !.edges = t.edges \ {{u, w}},
            !.sep = [e \in t.edges \ {{u, w}} |-> t.sep[e]]]

\* add_edge(u, w): the separator is the intersection of the two cliques.
add_edge(t, u, w) ==
  [t EXCEPT !.edges = t.edges \cup {{u, w}},
            !.sep = [e \in t.edges \cup {{u, w}} |->
                       IF e = {u, w}
                         THEN intersection(t.cliques[u], t.cliques[w])
                         ELSE t.sep[e]]]

\* remove_vertex(u, cascade): the vertex goes with its incident edges.
remove_vertex(t, u) ==
  LET rest == {e \in t.edges : u \notin e}
  IN  [cliques |-> [x \in vertices(t) \ {u} |-> t.cliques[x]],
       edges |-> rest,
       sep |-> [e \in rest |-> t.sep[e]]]

\* A faulty set_clique that leaves the separators as they were.
set_clique_stale(t, u, clique) ==
  [t EXCEPT !.cliques = [t.cliques EXCEPT ![u] = clique]]

\* A faulty merge that drops the source with all its edges and does not
\* attach its other neighbours to the target.
merge_detached(t, source, target) ==
  LET r == remove_vertex(t, source)
      cl == [r.cliques EXCEPT
               ![target] = set_union(t.cliques[target], t.cliques[source])]
  IN  [cliques |-> cl, edges |-> r.edges,
       sep |-> separators(cl, r.edges)]

\* set_clique(u, clique): the separators of the incident edges follow.
set_clique(t, u, clique) ==
  LET cl == [x \in vertices(t) |-> IF x = u THEN clique ELSE t.cliques[x]]
  IN  [t EXCEPT !.cliques = cl,
                !.sep = [e \in t.edges |->
                           IF u \in e THEN separators(cl, t.edges)[e]
                                      ELSE t.sep[e]]]

\* merge(e) for e = (source, target): the target keeps the union of the two
\* cliques, the source and the edge go, and the other neighbours of the
\* source are attached to the target.
merge(t, source, target) ==
  LET clique_union == set_union(t.cliques[target], t.cliques[source])
      cl == [x \in vertices(t) \ {source} |->
               IF x = target THEN clique_union ELSE t.cliques[x]]
      ed == {e \in t.edges : source \notin e}
              \cup {{w, target} : w \in neighbors(t, source) \ {target}}
  IN  [cliques |-> cl, edges |-> ed,
       sep |-> [e \in ed |->
                  IF target \in e THEN separators(cl, ed)[e] ELSE t.sep[e]]]

\* The vertices reachable from u along edges, by rounds of expansion.
RECURSIVE Reach(_, _)
Reach(t, S) ==
  LET T == S \cup {w \in vertices(t) : \E u \in S : {u, w} \in t.edges}
  IN  IF T = S THEN S ELSE Reach(t, T)

connected(t, u, w) == w \in Reach(t, {u})

\* The vertices on the tree path between u and w (both included), for u and
\* w in the same component of a forest: x is on the path iff removing x
\* disconnects u from w, or x is an end.
tree_path(t, u, w) ==
  {x \in vertices(t) :
     \/ x \in {u, w}
     \/ ~connected(remove_vertex(t, x), u, w)}

\* The running intersection property: a variable of two cliques is in every
\* clique on the tree path between them.
running_intersection(t) ==
  \A u, w \in vertices(t) :
    (u # w /\ connected(t, u, w)) =>
       \A x \in tree_path(t, u, w) :
          intersection(t.cliques[u], t.cliques[w]) \subseteq t.cliques[x]

(***************************************************************************)
(* State.                                                                  *)
(*   jt        the junction tree                                           *)
(*   lastOp    the last operation: its name, its vertices and, for a       *)
(*             structural edit, the tree it was applied to (history)       *)
(*   factors   the original factors the engine was built from              *)
(*   evidence  the assignment the engine has been conditioned on           *)
(*   assigned  the vertices and edges that carry a potential               *)
(*   pot       the potentials of the cliques and separators                *)
(*   ss        the Shafer-Shenoy engine: the cached message of each        *)
(*             directed edge, the set of valid ones, the beliefs           *)
(*   hugin     the Hugin engine: working potentials and separators         *)
(*   phase, root, passed  the position of the running calibration and the  *)
(*             directed edges a message has been passed over               *)
(*   dirty     the cliques whose potential changed since the calibration   *)
(*   err       the error raised by the last engine call, if any            *)
(*   ver, stamp  history: the time of the last change of each potential,   *)
(*             and the times of the potentials that each message and       *)
(*             belief was computed from                                    *)
(***************************************************************************)
VARIABLES jt, lastOp, factors, evidence, assigned, pot, ss, hugin, phase,
          root, passed, dirty, err, ver, stamp, fx, fy, call, tp, iter,
          iter_a, lr

engineVars == <<factors, evidence, assigned, pot, ss, hugin, phase, root,
                passed, dirty, err, ver, stamp>>

\* The operands of a factor operation and the record of the last call.
factorVars == <<fx, fy, call>>

\* The structure search: the iterator that is advanced and a second
\* iterator that is copy-constructed or assigned from it.
iterVars == <<iter, iter_a>>

\* The timed process, the structure search and the regression learner.
extVars == <<tp, iter, iter_a, lr>>

vars == <<jt, lastOp, factors, evidence, assigned, pot, ss, hugin, phase,
          root, passed, dirty, err, ver, stamp, fx, fy, call, tp, iter,
          iter_a, lr>>

Empty == [x \in {} |-> {}]

NoEdit == [op |-> "none", u |-> 0, w |-> 0, pre |-> empty_tree]

\* No factor operation has been called.
NoCall ==
  [op |-> "none", opt |-> "none", dom |-> {}, asg |-> Empty,
   strict |-> FALSE, out |-> constant_table_factor(Zero),
   val |-> Zero, var |-> 0, set |-> {}, err |-> "none"]

\* timed_process(name, size): no variable has been created.  An object is
\* identified by its rank of creation, 0 being NULL; seen_at, seen_current
\* and seen_next keep every object that at(step), current() and next() have
\* returned.
StepInputs == {0, 1, 2}
current_step == 2147483646
next_step == 2147483647
Steps == StepInputs \cup {current_step, next_step}

NewProcess ==
  [vars |-> [s \in {} |-> 0], var_current |-> 0, var_next |-> 0,
   allocated |-> 0, ret |-> 0, seen_at |-> [s \in Steps |-> {}],
   seen_current |-> {}, seen_next |-> {}]

\* decomposable_iterator(): the end iterator.  Only done is initialised;
\* the model and the list of steps are empty and no step information is
\* allocated.
StepTypes ==
  {"STEP_LOCAL_PUSH_BACK_SUBTREE", "STEP_LOCAL_COMBINE_NODES",
   "STEP_LOCAL_EDGE_2_NODE", "STEP_LOCAL_SPLIT_NODE", "STEP_LONG_SWAP_VAR",
   "STEP_LONG_MOVE_LEAF"}

InfoTypes == StepTypes \ {"STEP_LOCAL_SPLIT_NODE"}

NULL == [null |-> TRUE]

\* The five pointers to step information, all NULL.
no_info ==
  [STEP_LOCAL_PUSH_BACK_SUBTREE |-> NULL, STEP_LOCAL_COMBINE_NODES |-> NULL,
   STEP_LOCAL_EDGE_2_NODE |-> NULL, STEP_LONG_SWAP_VAR |-> NULL,
   STEP_LONG_MOVE_LEAF |-> NULL]

empty_model ==
  [jt |-> empty_tree, vpot |-> [x \in {} |-> {}], epot |-> [x \in {} |-> {}]]

end_iterator ==
  [model |-> empty_model, max_clique_size |-> 0, done |-> TRUE,
   steps |-> <<>>, which_step |-> 0, info |-> no_info,
   next_vertex |-> 1, reuse |-> FALSE, fault |-> "none", yielded |-> 0,
   initial |-> empty_model, at_end |-> <<>>, cands |-> <<>>,
   assigned |-> FALSE]

ProcessIdle == tp = NewProcess

IteratorIdle == iter = end_iterator /\ iter_a = end_iterator

\* No call of linear_regression::step() has been made.
NoStep ==
  [called |-> FALSE, prev_train_obj |-> 0, prev_iteration |-> 0,
   optimizer_step |-> FALSE, ret |-> FALSE, threw |-> FALSE]

\* A linear_regression that no data has been given to.
NoRegression ==
  [opt_method |-> 0, debug |-> 0, convergence_zero |-> 0,
   init_iterations |-> 0, iteration_ |-> 0, train_obj |-> 0,
   optimizer_ptr |-> FALSE, pc |-> "idle", last |-> NoStep]

RegressionIdle == lr = NoRegression

ExtIdle == ProcessIdle /\ IteratorIdle /\ RegressionIdle

FactorIdle ==
  /\ fx = constant_table_factor(Zero)
  /\ fy = constant_table_factor(Zero)
  /\ call = NoCall
  /\ ExtIdle

\* An engine over an unbuilt tree.
EngineUnbuilt ==
  /\ factors = [list |-> <<>>, home |-> <<>>]
  /\ evidence = Empty
  /\ assigned = [cliques |-> {}, separators |-> {}]
  /\ pot = [clique |-> Empty, separator |-> Empty]
  /\ ss = [message |-> Empty, valid |-> {}, belief |-> Empty,
           normalized |-> FALSE]
  /\ hugin = [belief |-> Empty, separator |-> Empty, normalized |-> FALSE]
  /\ phase = "idle"
  /\ root = 0
  /\ passed = {}
  /\ dirty = {}
  /\ err = "none"
  /\ ver = [clock |-> 0, at |-> Empty]
  /\ stamp = [message |-> Empty, belief |-> Empty, hugin |-> {},
              last_change |-> "none", after_calibration |-> FALSE]

(***************************************************************************)
(* Structural edits of a junction tree, from the empty tree.               *)
(***************************************************************************)
EditVars == 1..NumEditVars
EditCliques == SUBSET EditVars \ {{}}
VertexIds == 1..MaxVertices

InitJT ==
  /\ jt = empty_tree
  /\ lastOp = NoEdit
  /\ EngineUnbuilt
  /\ FactorIdle

\* add_vertex(clique): the new vertex takes the smallest free descriptor.
AddVertex(clique) ==
  /\ Cardinality(vertices(jt)) < MaxVertices
  /\ LET u == Min(VertexIds \ vertices(jt))
     IN  /\ jt' = add_vertex(jt, u, clique)
         /\ lastOp' = [op |-> "add_vertex", u |-> u, w |-> 0, pre |-> jt]
  /\ UNCHANGED <<engineVars, factorVars, extVars>>

RemoveVertex(u) ==
  /\ u \in vertices(jt)
  /\ jt' = remove_vertex(jt, u)
  /\ lastOp' = [op |-> "remove_vertex", u |-> u, w |-> 0, pre |-> jt]
  /\ UNCHANGED <<engineVars, factorVars, extVars>>

\* add_edge(u, w) between two vertices of different components, so that the
\* graph stays a forest; nothing else is validated.
AddEdge(u, w) ==
  /\ u \in vertices(jt) /\ w \in vertices(jt) /\ u # w
  /\ ~connected(jt, u, w)
  /\ jt' = add_edge(jt, u, w)
  /\ lastOp' = [op |-> "add_edge", u |-> u, w |-> w, pre |-> jt]
  /\ UNCHANGED <<engineVars, factorVars, extVars>>

RemoveEdge(u, w) ==
  /\ {u, w} \in jt.edges /\ u < w
  /\ jt' = remove_edge(jt, u, w)
  /\ lastOp' = [op |-> "remove_edge", u |-> u, w |-> w, pre |-> jt]
  /\ UNCHANGED <<engineVars, factorVars, extVars>>

SetClique(u, clique) ==
  /\ u \in vertices(jt)
  /\ clique # jt.cliques[u]
  /\ jt' = set_clique(jt, u, clique)
  /\ lastOp' = [op |-> "set_clique", u |-> u, w |-> 0, pre |-> jt]
  /\ UNCHANGED <<engineVars, factorVars, extVars>>

\* merge(e), e directed from source to target.
Merge(source, target) ==
  /\ {source, target} \in jt.edges /\ source # target
  /\ jt' = merge(jt, source, target)
  /\ lastOp' = [op |-> "merge", u |-> source, w |-> target, pre |-> jt]
  /\ UNCHANGED <<engineVars, factorVars, extVars>>

NextJT ==
  \/ \E clique \in EditCliques : AddVertex(clique)
  \/ \E u \in VertexIds : RemoveVertex(u)
  \/ \E u, w \in VertexIds : AddEdge(u, w)
  \/ \E u, w \in VertexIds : RemoveEdge(u, w)
  \/ \E u \in VertexIds, clique \in EditCliques : SetClique(u, clique)
  \/ \E source, target \in VertexIds : Merge(source, target)

SpecJT == InitJT /\ [][NextJT]_vars

(***************************************************************************)
(* Properties of the structural edits (checked under SpecJT).              *)
(***************************************************************************)
\* The component of u in t.
component(t, u) == Reach(t, {u})

\* Joining the components of u and w by the edge u - w keeps the running
\* intersection property iff every variable found on both sides is in both
\* end cliques.
AddEdgeKeepsRIP(t, u, w) ==
  \A x \in component(t, u), y \in component(t, w) :
    (t.cliques[x] \cap t.cliques[y]) \subseteq (t.cliques[u] \cap t.cliques[w])

\* C8 (as stated): the running intersection property holds after every
\* structural edit (add vertex, add edge, remove vertex, remove edge, merge)
\* applied to a tree that satisfied it.  Refuted by add_edge.
C8_AsStated ==
  (/\ lastOp.op \in {"add_vertex", "add_edge", "remove_vertex",
                       "remove_edge", "merge"}
   /\ running_intersection(lastOp.pre))
    => running_intersection(jt)

\* C8 (amended): applied to a tree with the running intersection property,
\* add_vertex, remove_vertex, remove_edge and merge preserve it, and
\* add_edge(u, w) preserves it exactly when every variable that occurs both
\* in a clique of u's component and in a clique of w's component belongs to
\* clique(u) and to clique(w).
C8_RunningIntersection ==
  /\ (/\ lastOp.op \in {"add_vertex", "remove_vertex", "remove_edge",
                          "merge"}
      /\ running_intersection(lastOp.pre))
       => running_intersection(jt)
  /\ (/\ lastOp.op = "add_edge"
      /\ running_intersection(lastOp.pre))
       => (running_intersection(jt)
             <=> AddEdgeKeepsRIP(lastOp.pre, lastOp.u, lastOp.w))

\* A merge applied to a four-clique tree with the running intersection
\* property, whose source has another neighbour and a variable the target
\* lacks.
C8_Witness ==
  /\ lastOp.op = "merge"
  /\ running_intersection(lastOp.pre)
  /\ Cardinality(vertices(lastOp.pre)) = MaxVertices
  /\ neighbors(lastOp.pre, lastOp.u) \ {lastOp.w} # {}
  /\ ~(lastOp.pre.cliques[lastOp.u] \subseteq
         lastOp.pre.cliques[lastOp.w])

\* C9: at all times the separator of every edge is the intersection of the
\* cliques at its two ends, also after set_clique or merge changed one of
\* them.
C9_SeparatorIsIntersection ==
  \A u, w \in vertices(jt) :
    {u, w} \in jt.edges =>
       jt.sep[{u, w}] = jt.cliques[u] \cap jt.cliques[w]

\* set_clique has changed the separator of an edge that was already there,
\* or merge has changed the separator of an edge the target already had.
C9_Witness ==
  /\ lastOp.op \in {"set_clique", "merge"}
  /\ \E e \in jt.edges \cap lastOp.pre.edges :
       jt.sep[e] # lastOp.pre.sep[e]

\* C10: merge(e) for e between source and target leaves one vertex, the
\* target, whose clique is the union of the two cliques; the source and e
\* are gone; every other former neighbour of the source is a neighbour of
\* the merged vertex; the rest of the tree is as before.
C10_Merge ==
  lastOp.op = "merge" =>
    LET p == lastOp.pre
        source == lastOp.u
        target == lastOp.w
    IN  /\ vertices(jt) = vertices(p) \ {source}
        /\ jt.cliques[target] = p.cliques[source] \cup p.cliques[target]
        /\ \A x \in vertices(jt) \ {target} : jt.cliques[x] = p.cliques[x]
        /\ \A e \in jt.edges : source \notin e
        /\ \A x \in neighbors(p, source) \ {target} : {x, target} \in jt.edges
        /\ \A e \in p.edges : source \notin e => e \in jt.edges
        /\ Cardinality(jt.edges) = Cardinality(p.edges) - 1

\* A merge of two cliques neither of which includes the other, the source
\* having another neighbour.
C10_Witness ==
  /\ lastOp.op = "merge"
  /\ neighbors(lastOp.pre, lastOp.u) \ {lastOp.w} # {}
  /\ lastOp.pre.cliques[lastOp.u] \ lastOp.pre.cliques[lastOp.w] # {}
  /\ lastOp.pre.cliques[lastOp.w] \ lastOp.pre.cliques[lastOp.u] # {}

(***************************************************************************)
(* The inference engines.  shafer_shenoy and hugin are not among the       *)
(* sources; they are modelled from their published contract, on top of the *)
(* table_factor operations above, and run side by side on the same tree,   *)
(* the same potentials and the same schedule of messages.                  *)
(***************************************************************************)
\* The models the engines are built from: the junction tree of a chain of
\* four variables, and a tree with a clique of three neighbours.
Models == {"chain", "star"}

ModelCliques(m) ==
  IF m = "chain" THEN <<{1, 2}, {2, 3}, {3, 4}>>
                 ELSE <<{1, 2, 3}, {1, 4}, {2}, {2, 3}>>

ModelEdges(m) ==
  IF m = "chain" THEN {{1, 2}, {2, 3}} ELSE {{1, 2}, {1, 3}, {1, 4}}

\* The argument sequence of each original factor.
ModelFactorArgs(m) ==
  IF m = "chain" THEN <<(<<1, 2>>), (<<3, 2>>), (<<3, 4>>), (<<2>>)>>
                 ELSE <<(<<1, 2>>), (<<3, 1>>), (<<4, 1>>), (<<2>>),
                        (<<2, 3>>)>>

Seeds == 1..NumSeeds

\* The k-th value of the i-th factor drawn with the given seed: a positive
\* number, as the potentials of the random Ising model are.
SeedValue(seed, i, k) == 1 + ((seed * k + i + seed) % 3)

random_factor(arguments, seed, i) ==
  make_dense_table_factor(arguments,
    [k \in 1..ShapeSize([j \in 1..Len(arguments) |-> VarSize(arguments[j])])
       |-> <<SeedValue(seed, i, k), 1>>])

ModelFactors(m, seed) ==
  [i \in 1..Len(ModelFactorArgs(m)) |->
     random_factor(ModelFactorArgs(m)[i], seed, i)]

DirectedEdges(t) ==
  {d \in vertices(t) \X vertices(t) : {d[1], d[2]} \in t.edges}

\* The clique a factor is multiplied into: a smallest clique that covers its
\* arguments.
home(t, f) ==
  LET covers == {u \in vertices(t) : includes(t.cliques[u], f.args)}
      least == {u \in covers : \A x \in covers :
                  Cardinality(t.cliques[u]) <= Cardinality(t.cliques[x])}
  IN  Min(least)

\* The product of the factors of a sequence into f, by operator*=.
RECURSIVE prod_all(_, _)
prod_all(f, fs) ==
  IF fs = <<>> THEN f ELSE prod_all(times_assign(f, Head(fs)), Tail(fs))

\* The indices of the factors homed at u, in order.
RECURSIVE homed_at(_, _, _)
homed_at(homes, u, i) ==
  IF i > Len(homes) THEN <<>>
  ELSE (IF homes[i] = u THEN <<i>> ELSE <<>>) \o homed_at(homes, u, i + 1)

\* The potential of clique u: the product of the factors homed at u, each
\* restricted to the evidence a.
clique_potential(t, fs, a, u) ==
  LET mine == homed_at(fs.home, u, 1)
  IN  prod_all(table_factor(t.cliques[u], One),
               [i \in 1..Len(mine) |-> restrict(fs.list[mine[i]], a)])

unit_potentials(t) ==
  [clique |-> [u \in vertices(t) |-> table_factor(t.cliques[u], One)],
   separator |-> [e \in t.edges |-> table_factor(t.sep[e], One)]]

EngineOp(name, u, w) == [op |-> name, u |-> u, w |-> w, pre |-> empty_tree]

InitEngine ==
  /\ jt = empty_tree
  /\ lastOp = NoEdit
  /\ EngineUnbuilt
  /\ FactorIdle

\* The tree of a model is built; no potential is assigned yet.
Build(m, seed) ==
  /\ vertices(jt) = {}
  /\ LET cl == ModelCliques(m)
         t == [cliques |-> [u \in 1..Len(cl) |-> cl[u]],
               edges |-> ModelEdges(m),
               sep |-> separators(cl, ModelEdges(m))]
     IN  /\ jt' = t
         /\ factors' = [list |-> ModelFactors(m, seed),
                         home |-> [i \in 1..Len(ModelFactorArgs(m)) |->
                                     home(t, ModelFactors(m, seed)[i])]]
         /\ pot' = unit_potentials(t)
         /\ ss' = [message |-> [d \in DirectedEdges(t) |->
                                  table_factor(t.sep[{d[1], d[2]}], One)],
                   valid |-> {},
                   belief |-> [u \in vertices(t) |->
                                 table_factor(t.cliques[u], One)],
                   normalized |-> FALSE]
         /\ hugin' = [belief |-> [u \in vertices(t) |->
                                    table_factor(t.cliques[u], One)],
                      separator |-> [e \in t.edges |->
                                       table_factor(t.sep[e], One)],
                      normalized |-> FALSE]
         /\ ver' = [clock |-> 0, at |-> [u \in vertices(t) |-> 0]]
         /\ stamp' = [message |-> [d \in DirectedEdges(t) |-> {}],
                      belief |-> [u \in vertices(t) |-> {}],
                      hugin |-> {},
                      last_change |-> "none", after_calibration |-> FALSE]
  /\ lastOp' = EngineOp("build", 0, 0)
  /\ err' = "none"
  /\ UNCHANGED <<extVars, factorVars, evidence, assigned, phase, root, passed, dirty>>

\* A clique receives its potential: the product of the factors homed at it.
AssignCliquePotential(u) ==
  /\ u \in vertices(jt) \ assigned.cliques
  /\ assigned' = [assigned EXCEPT !.cliques = @ \cup {u}]
  /\ pot' = [pot EXCEPT !.clique[u] =
               clique_potential(jt, factors, evidence, u)]
  /\ dirty' = dirty \cup {u}
  /\ lastOp' = EngineOp("assign", u, 0)
  /\ err' = "none"
  /\ UNCHANGED <<extVars, factorVars, jt, factors, evidence, ss, hugin, phase, root, passed,
                 ver, stamp>>

\* A separator receives its potential: the unit factor.
AssignSeparatorPotential(e) ==
  /\ e \in jt.edges \ assigned.separators
  /\ assigned' = [assigned EXCEPT !.separators = @ \cup {e}]
  /\ pot' = [pot EXCEPT !.separator[e] = table_factor(jt.sep[e], One)]
  /\ lastOp' = EngineOp("assign", 0, 0)
  /\ err' = "none"
  /\ UNCHANGED <<extVars, factorVars, jt, factors, evidence, ss, hugin, phase, root, passed,
                 dirty, ver, stamp>>

\* A faulty test that overlooks the separators.
populated_cliques(t, A) == vertices(t) # {} /\ A.cliques = vertices(t)

\* The tree is populated: it is built and every clique and every separator
\* carries a potential.
populated(t, A) ==
  /\ vertices(t) # {}
  /\ A.cliques = vertices(t)
  /\ A.separators = t.edges

\* The root-ward neighbour of u (u # r), and the other neighbours.
parent(t, r, u) == CHOOSE w \in neighbors(t, u) : w \in tree_path(t, u, r)

children(t, r, u) ==
  IF u = r THEN neighbors(t, u) ELSE neighbors(t, u) \ {parent(t, r, u)}

\* A faulty readiness test: a clique may send at any time.
collect_eager(t, r, p, u) == TRUE

\* Collect: u may send to its parent once every child has sent to u.
collect_ready(t, r, p, u) == \A x \in children(t, r, u) : <<x, u>> \in p

collect_done(t, r, p) == \A x \in neighbors(t, r) : <<x, r>> \in p

\* Distribute: u may send to its children once its parent has sent to u.
distribute_ready(t, r, p, u) ==
  IF u = r THEN TRUE ELSE <<parent(t, r, u), u>> \in p

\* A faulty end of the distribute pass: as soon as the root has sent.
distribute_done_at_root(t, r, p) == \A w \in neighbors(t, r) : <<r, w>> \in p

\* The distribute pass is over when every clique that may send has sent to
\* all its children.
distribute_done(t, r, p) ==
  \A u \in vertices(t) :
    distribute_ready(t, r, p, u) =>
       \A w \in children(t, r, u) : <<u, w>> \in p

\* A faulty invalidation: only the messages sent by a changed clique.
messages_sent_by(t, D) == {d \in DirectedEdges(t) : d[1] \in D}

\* The directed edges whose message depends on the potential of a clique of
\* D: the cliques of D on the sender's side of the edge.
messages_touching(t, D) ==
  {d \in DirectedEdges(t) :
     \E x \in D : connected(remove_edge(t, d[1], d[2]), x, d[1])}

\* The messages into u from its neighbours other than w, in neighbour order.
incoming(t, M, u, w) ==
  LET from == SetToSeq(neighbors(t, u) \ {w})
  IN  [i \in 1..Len(from) |-> M[<<from[i], u>>]]

\* Shafer-Shenoy: the message from u to w combines the potential of u with
\* the messages into u from its other neighbours, collapsed onto the
\* separator.
ss_message(t, P, M, u, w) ==
  marginal(prod_all(P[u], incoming(t, M, u, w)), t.sep[{u, w}])

\* Shafer-Shenoy: the belief of u combines its potential with all the
\* messages into u.
ss_belief(t, P, M, u) == prod_all(P[u], incoming(t, M, u, 0))

\* Hugin: w absorbs from u over their separator; the separator stores the
\* absorbed marginal.
hugin_pass(t, H, u, w) ==
  LET new_sep == marginal(H.belief[u], t.sep[{u, w}])
  IN  [H EXCEPT
         !.belief[w] = times_assign(divide_assign(@, H.separator[{u, w}]),
                                    new_sep),
         !.separator[{u, w}] = new_sep]

\* History: the times of the potentials behind the message from u to w, and
\* behind the belief of u.
stamp_now(V) == {<<x, ver.at[x]>> : x \in V}

message_stamp(t, S, u, w) ==
  stamp_now({u}) \cup
    UNION {S[<<x, u>>] : x \in neighbors(t, u) \ {w}}

belief_stamp(t, S, u) ==
  stamp_now({u}) \cup UNION {S[<<x, u>>] : x \in neighbors(t, u)}

\* Shafer-Shenoy passes a message from u to w: the cached message if it is
\* valid, else a newly computed one, which is cached.
ss_pass(t, P, S, u, w) ==
  IF <<u, w>> \in S.valid THEN S
  ELSE [S EXCEPT !.message[<<u, w>>] = ss_message(t, P, S.message, u, w),
                 !.valid = @ \cup {<<u, w>>}]

stamp_pass(t, S, T, u, w) ==
  IF <<u, w>> \in S.valid THEN T
  ELSE [T EXCEPT !.message[<<u, w>>] = message_stamp(t, T.message, u, w)]

\* calibrate(): fails on a tree that is not populated; otherwise drops the
\* cached messages touching a changed potential, resets the working
\* potentials of Hugin if any potential changed, and starts the collect
\* pass towards a root.
Calibrate(r) ==
  /\ phase = "idle"
  /\ lastOp' = EngineOp("calibrate", r, 0)
  /\ \/ /\ ~populated(jt, assigned)
        /\ r = 0
        /\ err' = "InvalidOperation"
        /\ UNCHANGED <<extVars, factorVars, jt, factors, evidence, assigned, pot, ss, hugin,
                       phase, root, passed, dirty, ver, stamp>>
     \/ /\ populated(jt, assigned)
        /\ r \in vertices(jt)
        /\ err' = "none"
        /\ root' = r
        /\ phase' = "collect"
        /\ passed' = {}
        /\ ss' = [ss EXCEPT !.valid = @ \ messages_touching(jt, dirty)]
        /\ hugin' = IF dirty = {} THEN hugin
                    ELSE [belief |-> pot.clique,
                          separator |-> pot.separator,
                          normalized |-> FALSE]
        /\ stamp' = IF dirty = {} THEN stamp
                    ELSE [stamp EXCEPT !.hugin = stamp_now(vertices(jt))]
        /\ dirty' = {}
        /\ UNCHANGED <<extVars, factorVars, jt, factors, evidence, assigned, pot, ver>>

\* One message of the collect pass: from u to its parent.
CollectPass(u) ==
  /\ phase = "collect"
  /\ u \in vertices(jt) \ {root}
  /\ <<u, parent(jt, root, u)>> \notin passed
  /\ collect_ready(jt, root, passed, u)
  /\ passed' = passed \cup {<<u, parent(jt, root, u)>>}
  /\ ss' = ss_pass(jt, pot.clique, ss, u, parent(jt, root, u))
  /\ stamp' = stamp_pass(jt, ss, stamp, u, parent(jt, root, u))
  /\ hugin' = hugin_pass(jt, hugin, u, parent(jt, root, u))
  /\ phase' = IF collect_done(jt, root, passed') THEN "distribute"
                                                 ELSE "collect"
  /\ lastOp' = EngineOp("collect", u, parent(jt, root, u))
  /\ err' = "none"
  /\ UNCHANGED <<extVars, factorVars, jt, factors, evidence, assigned, pot, root, dirty, ver>>

\* One message of the distribute pass: from u to a child w.  With the last
\* one the calibration is complete and the Shafer-Shenoy beliefs are
\* computed.
DistributePass(u, w) ==
  /\ phase = "distribute"
  /\ u \in vertices(jt)
  /\ w \in children(jt, root, u)
  /\ <<u, w>> \notin passed
  /\ distribute_ready(jt, root, passed, u)
  /\ passed' = passed \cup {<<u, w>>}
  /\ hugin' = hugin_pass(jt, hugin, u, w)
  /\ LET s1 == ss_pass(jt, pot.clique, ss, u, w)
         t1 == stamp_pass(jt, ss, stamp, u, w)
     IN  IF distribute_done(jt, root, passed')
           THEN /\ phase' = "calibrated"
                /\ ss' = [s1 EXCEPT
                     !.belief = [x \in vertices(jt) |->
                                   ss_belief(jt, pot.clique, s1.message, x)],
                     !.normalized = FALSE]
                /\ stamp' = [t1 EXCEPT
                     !.belief = [x \in vertices(jt) |->
                                   belief_stamp(jt, t1.message, x)]]
           ELSE /\ phase' = "distribute"
                /\ ss' = s1
                /\ stamp' = t1
  /\ lastOp' = EngineOp("distribute", u, w)
  /\ err' = "none"
  /\ UNCHANGED <<extVars, factorVars, jt, factors, evidence, assigned, pot, root, dirty, ver>>

\* normalize(): every belief is divided by its sum.
Normalize ==
  /\ phase = "calibrated"
  /\ ~ss.normalized
  /\ ss' = [ss EXCEPT
        !.belief = [x \in vertices(jt) |-> normalize(ss.belief[x])],
        !.normalized = TRUE]
  /\ hugin' = [belief |-> [x \in vertices(jt) |-> normalize(hugin.belief[x])],
               separator |-> [e \in jt.edges |->
                                normalize(hugin.separator[e])],
               normalized |-> TRUE]
  /\ lastOp' = EngineOp("normalize", 0, 0)
  /\ err' = "none"
  /\ UNCHANGED <<extVars, factorVars, jt, factors, evidence, assigned, pot, phase, root, passed,
                 dirty, ver, stamp>>

\* The assignments an engine is conditioned on.
CondAssignments == {(2 :> 1), (1 :> 0 @@ 3 :> 2)}

\* The tree with the variables of S dropped from every clique.
condition_tree(t, S) ==
  LET cl == [u \in vertices(t) |-> difference(t.cliques[u], S)]
  IN  [cliques |-> cl, edges |-> t.edges, sep |-> separators(cl, t.edges)]

\* The potential of a clique is changed: one of its factors is drawn anew.
SetPotential(i, seed) ==
  /\ populated(jt, assigned)
  /\ phase \in {"idle", "calibrated"}
  /\ ver.clock < MaxChanges
  /\ i \in 1..Len(factors.list)
  /\ LET f == random_factor(factors.list[i].arg_seq, seed, i)
         fs == [factors EXCEPT !.list[i] = f]
         u == factors.home[i]
     IN  /\ f # factors.list[i]
         /\ factors' = fs
         /\ pot' = [pot EXCEPT
                      !.clique[u] = clique_potential(jt, fs, evidence, u)]
         /\ dirty' = dirty \cup {u}
         /\ ver' = [clock |-> ver.clock + 1,
                    at |-> [ver.at EXCEPT ![u] = ver.clock + 1]]
         /\ lastOp' = EngineOp("set_potential", u, 0)
  /\ stamp' = [stamp EXCEPT !.last_change = "set_potential",
                            !.after_calibration = (phase = "calibrated")]
  /\ phase' = "idle"
  /\ root' = 0
  /\ passed' = {}
  /\ err' = "none"
  /\ UNCHANGED <<extVars, factorVars, jt, evidence, assigned, ss, hugin>>

\* condition(a): every clique and separator potential is restricted to a,
\* the cliques lose the variables of a, and every cached message is invalid.
Condition(a) ==
  /\ populated(jt, assigned)
  /\ phase \in {"idle", "calibrated"}
  /\ ver.clock < MaxChanges
  /\ DOMAIN a \cap DOMAIN evidence = {}
  /\ LET t == condition_tree(jt, DOMAIN a)
     IN  /\ jt' = t
         /\ pot' = [clique |-> [u \in vertices(t) |->
                                  restrict(pot.clique[u], a)],
                    separator |-> [e \in t.edges |->
                                     restrict(pot.separator[e], a)]]
         /\ ss' = [message |-> [d \in DirectedEdges(t) |->
                                  table_factor(t.sep[{d[1], d[2]}], One)],
                   valid |-> {},
                   belief |-> [u \in vertices(t) |->
                                 restrict(ss.belief[u], a)],
                   normalized |-> FALSE]
         /\ hugin' = [belief |-> [u \in vertices(t) |->
                                    restrict(hugin.belief[u], a)],
                      separator |-> [e \in t.edges |->
                                       restrict(hugin.separator[e], a)],
                      normalized |-> hugin.normalized]
  /\ evidence' = a @@ evidence
  /\ ver' = [clock |-> ver.clock + 1,
             at |-> [u \in vertices(jt) |-> ver.clock + 1]]
  /\ stamp' = [stamp EXCEPT
        !.hugin = {<<d[1], IF d[2] = ver.at[d[1]] THEN ver.clock + 1
                                                  ELSE d[2]>> : d \in @},
        !.last_change = "condition",
        !.after_calibration = (phase = "calibrated")]
  /\ phase' = "idle"
  /\ root' = 0
  /\ passed' = {}
  /\ lastOp' = EngineOp("condition", 0, 0)
  /\ err' = "none"
  /\ UNCHANGED <<extVars, factorVars, factors, assigned, dirty>>

EngineNext ==
  \/ \E m \in Models, seed \in Seeds : Build(m, seed)
  \/ \E u \in VertexIds : AssignCliquePotential(u)
  \/ \E e \in SUBSET VertexIds : AssignSeparatorPotential(e)
  \/ \E r \in VertexIds \cup {0} : Calibrate(r)
  \/ \E u \in VertexIds : CollectPass(u)
  \/ \E u, w \in VertexIds : DistributePass(u, w)
  \/ Normalize
  \/ \E i \in 1..Len(factors.list), seed \in Seeds : SetPotential(i, seed)
  \/ \E a \in CondAssignments : Condition(a)

SpecEngine == InitEngine /\ [][EngineNext]_vars

(***************************************************************************)
(* Reference values: marginals of the product of the original factors by   *)
(* enumeration of the joint assignments, with no use of the factor         *)
(* operations.  The original factors hold whole numbers.                   *)
(***************************************************************************)
Assignments(S) ==
  {a \in [S -> 0..2] : \A x \in S : a[x] < VarSize(x)}

\* The value of the product of the factors at a joint assignment.
RECURSIVE weight(_, _, _)
weight(fs, a, i) ==
  IF i > Len(fs) THEN 1 ELSE v(fs[i], a)[1] * weight(fs, a, i + 1)

RECURSIVE total_weight(_, _)
total_weight(fs, S) ==
  IF S = {} THEN 0
  ELSE LET a == CHOOSE a \in S : TRUE
       IN  weight(fs, a, 1) + total_weight(fs, S \ {a})

\* The variables of the model: the arguments of its factors.
model_arguments(fs) == UNION {fs[i].args : i \in 1..Len(fs)}

\* The sum of the joint over the assignments that extend x and the evidence.
expected(fs, ev, x) ==
  total_weight(fs, {a \in Assignments(model_arguments(fs)) :
                      /\ \A y \in DOMAIN x : a[y] = x[y]
                      /\ \A y \in DOMAIN ev : a[y] = ev[y]})

\* f is the marginal over C of the product of the factors restricted to the
\* evidence.
is_marginal(f, fs, ev, C) ==
  /\ f.args = C
  /\ \A x \in Assignments(C) : v(f, x) = <<expected(fs, ev, x), 1>>

\* f is that marginal, normalized.
is_normalized_marginal(f, fs, ev, C) ==
  /\ f.args = C
  /\ \A x \in Assignments(C) :
       v(f, x) = Rat(expected(fs, ev, x), expected(fs, ev, Empty))

(***************************************************************************)
(* Properties of the engines (checked under SpecEngine).                   *)
(***************************************************************************)
\* C1: after calibrate() the belief at every clique, in Shafer-Shenoy and
\* in Hugin, is the marginal over the clique's variables of the product of
\* all the original factors (restricted to the evidence, if any).
C1_CalibratedBeliefs ==
  phase = "calibrated" =>
    \A u \in vertices(jt) :
      /\ ~ss.normalized =>
           is_marginal(ss.belief[u], factors.list, evidence, jt.cliques[u])
      /\ ~hugin.normalized =>
           is_marginal(hugin.belief[u], factors.list, evidence,
                       jt.cliques[u])

\* A calibration from the original factors, rooted at a leaf of the tree
\* with a clique of three neighbours.
C1_Witness ==
  /\ phase = "calibrated"
  /\ ~ss.normalized /\ ~hugin.normalized
  /\ evidence = Empty
  /\ Cardinality(vertices(jt)) = 4
  /\ Cardinality(neighbors(jt, root)) = 1

\* C2: Shafer-Shenoy and Hugin, calibrated on the same tree from the same
\* potentials, hold the same belief at every clique.
C2_SameBeliefs ==
  (phase = "calibrated" /\ ss.normalized = hugin.normalized) =>
     \A u \in vertices(jt) : factor_equal(ss.belief[u], hugin.belief[u])

\* Both engines calibrated after a potential has changed.
C2_Witness ==
  /\ phase = "calibrated"
  /\ ~ss.normalized /\ ~hugin.normalized
  /\ stamp.last_change = "set_potential"
  /\ Cardinality(neighbors(jt, root)) > 1

\* C3: on a calibrated engine, condition(a); calibrate(); normalize() gives
\* at every clique the normalized marginal of the original factors
\* restricted to a; conditioning leaves no cached message valid, and no
\* message from before the conditioning is behind the new beliefs.
C3_ConditionedBeliefs ==
  /\ lastOp.op = "condition" => ss.valid = {}
  /\ (phase = "calibrated" /\ evidence # Empty) =>
       \A u \in vertices(jt) :
         /\ stamp.belief[u] = stamp_now(vertices(jt))
         /\ ss.normalized =>
              /\ is_normalized_marginal(ss.belief[u], factors.list, evidence,
                                        jt.cliques[u])
              /\ is_normalized_marginal(hugin.belief[u], factors.list,
                                        evidence, jt.cliques[u])

\* A calibrated and normalized engine was conditioned, calibrated again and
\* normalized.
C3_Witness ==
  /\ phase = "calibrated"
  /\ ss.normalized /\ hugin.normalized
  /\ evidence # Empty
  /\ stamp.last_change = "condition"
  /\ stamp.after_calibration

\* C4: in the collect pass, for any tree and root, a clique has sent its
\* message toward the root only if it has received the messages of all its
\* neighbours other than the root-ward one.
C4_CollectOrder ==
  root # 0 =>
    \A u \in vertices(jt) \ {root} :
      <<u, parent(jt, root, u)>> \in passed =>
         \A x \in neighbors(jt, u) \ {parent(jt, root, u)} :
            <<x, u>> \in passed

\* A clique with two neighbours away from the root has just sent its
\* collect message.
C4_Witness ==
  /\ lastOp.op = "collect"
  /\ Cardinality(neighbors(jt, lastOp.u) \ {lastOp.w}) = 2
  /\ <<lastOp.u, lastOp.w>> \in passed

\* C5: after the collect pass and the distribute pass, for any tree and
\* root, a message has passed in both directions over every edge: every
\* clique has received one from each neighbour.
C5_AllMessages ==
  phase = "calibrated" =>
    \A u \in vertices(jt) :
      \A x \in neighbors(jt, u) : <<x, u>> \in passed /\ <<x, u>> \in ss.valid

\* A calibration rooted at a clique at one end of the chain is complete.
C5_Witness ==
  /\ phase = "calibrated"
  /\ lastOp.op = "distribute"
  /\ Cardinality(vertices(jt)) = 3
  /\ Cardinality(neighbors(jt, root)) = 1

C7_NotPopulated ==
  LET is_populated == /\ vertices(jt) # {}
                      /\ \A u \in vertices(jt) : u \in assigned.cliques
                      /\ \A e \in jt.edges : e \in assigned.separators
  IN  /\ (lastOp.op = "calibrate" /\ ~is_populated) =>
           err = "InvalidOperation"
      /\ ~is_populated => (phase = "idle" /\ passed = {} /\ ss.valid = {})
      /\ err = "InvalidOperation" =>
           (lastOp.op = "calibrate" /\ ~is_populated)

\* calibrate() has failed on a built tree whose cliques all carry a
\* potential and one of whose separators does not.
C7_Witness ==
  /\ err = "InvalidOperation"
  /\ vertices(jt) # {}
  /\ assigned.cliques = vertices(jt)
  /\ assigned.separators # jt.edges

(***************************************************************************)
(* The table_factor operations as calls on operands fx and fy drawn from   *)
(* a bounded set of factors; call records the last operation, its          *)
(* parameters, its result (out, or val for a number) and its error.        *)
(***************************************************************************)
\* Number of variables the operand factors draw their arguments from.
NumFactorVars == 3
\* Largest number of arguments of an operand factor.
MaxArgs == 3
\* Number of value tables an operand factor is filled from.
NumTables == 4
\* Largest number of cells of an operand factor.
MaxCells == 12

FactorVarIds == 1..NumFactorVars

\* The argument sequences of the operands: every order of every choice of
\* at most MaxArgs variables whose table has at most MaxCells cells.
ArgSeqs ==
  {s \in UNION {[1..n -> FactorVarIds] : n \in 0..MaxArgs} :
     /\ \A i, j \in DOMAIN s : i # j => s[i] # s[j]
     /\ ShapeSize([j \in DOMAIN s |-> VarSize(s[j])]) <= MaxCells}

\* The k-th value of value table t: 1, 2, 3, ... (t = 1); ones followed by
\* zeros (t = 2); zeros, ones and minus ones (t = 3); an infinity followed
\* by ones (t = 4); ones and twos (any further table).
TableValue(t, k) ==
  CASE t = 1 -> <<k, 1>>
    [] t = 2 -> IF k <= 2 THEN One ELSE Zero
    [] t = 3 -> <<(k % 3) - 1, 1>>
    [] t = 4 -> IF k = 1 THEN Inf ELSE One
    [] OTHER -> <<1 + ((k + t) % 2), 1>>

\* The factor over the given argument sequence filled from value table t.
operand(arguments, t) ==
  make_dense_table_factor(arguments,
    [k \in 1..ShapeSize([j \in 1..Len(arguments) |-> VarSize(arguments[j])])
       |-> TableValue(t, k)])

\* The left operands, and the right operands (also the pre-allocated
\* results of the operations that store their result in a given factor).
LeftOperands == {operand(s, t) : s \in ArgSeqs, t \in 1..NumTables}
RightOperands == {operand(s, t) : s \in {q \in ArgSeqs : Len(q) <= 2},
                                  t \in 1..2}

InitFactor ==
  /\ jt = empty_tree
  /\ lastOp = NoEdit
  /\ EngineUnbuilt
  /\ fx \in LeftOperands
  /\ fy \in RightOperands
  /\ call = NoCall
  /\ ExtIdle

OpTypes == {"sum_op", "minus_op", "product_op", "divides_op", "max_op",
            "min_op", "and_op", "or_op"}

\* One operation is applied to the operands drawn.
NotCalled == call.op = "none"

\* combine(x, y, op).
Combine(op) ==
  /\ NotCalled
  /\ call' = [NoCall EXCEPT !.op = "combine", !.opt = op,
                            !.out = combine(fx, fy, op)]
  /\ UNCHANGED <<extVars, jt, lastOp, engineVars, fx, fy>>

\* x.combine_in(y, op): operator+=, -=, *=, /=, max, min, logical_and,
\* logical_or.
CombineIn(op) ==
  /\ NotCalled
  /\ call' = [NoCall EXCEPT !.op = "combine_in", !.opt = op,
                            !.out = combine_in(fx, fy, op)]
  /\ UNCHANGED <<extVars, jt, lastOp, engineVars, fx, fy>>

\* The initial value each op_type is collapsed from.
initial_value(op) ==
  CASE op \in {"sum_op", "minus_op", "or_op"} -> Zero
    [] op \in {"product_op", "divides_op", "and_op"} -> One
    [] op = "max_op" -> NegInf
    [] op = "min_op" -> Inf

\* collapse(op, retained) for an op_type.
collapse_op(f, op, retained) == collapse(f, op, initial_value(op), retained)

\* maximum(retain) and minimum(retain) of a factor.
factor_maximum(f, retain) == collapse(f, "max_op", NegInf, retain)
factor_minimum(f, retain) == collapse(f, "min_op", Inf, retain)

\* collapse(f, agg_op, initialvalue, retained): the result is stored in f,
\* which is reallocated only when its argument sequence is not the one
\* needed.
collapse_into(self, f, agg_op, initialvalue, retained) ==
  LET newargs == SelectSeq(self.arg_seq, LAMBDA x : x \in retained)
  IN  IF Len(newargs) = Len(self.arg_seq)
        THEN IF f.arg_seq = self.arg_seq
               THEN [f EXCEPT !.table_data = self.table_data]
               ELSE self
        ELSE LET i == initialize(newargs, initialvalue)
                 g == IF f.arg_seq # newargs
                        THEN [args |-> Range(newargs), arg_seq |-> i.arg_seq,
                              var_index |-> i.var_index,
                              table_data |-> i.table_data]
                        ELSE [f EXCEPT !.table_data.elts =
                                [k \in 1..Len(f.table_data.elts) |->
                                   initialvalue]]
             IN  [g EXCEPT !.table_data =
                    table_aggregate(g.table_data, self.table_data,
                       make_dim_map(g.arg_seq, self.var_index), agg_op)]

RetainedDomains == SUBSET FactorVarIds

Collapse(op, retained) ==
  /\ NotCalled
  /\ call' = [NoCall EXCEPT !.op = "collapse", !.opt = op,
                            !.dom = retained,
                            !.out = collapse_op(fx, op, retained)]
  /\ UNCHANGED <<extVars, jt, lastOp, engineVars, fx, fy>>

\* marginal(retain), maximum(retain), minimum(retain).
Reduce(op, retain) ==
  /\ NotCalled
  /\ call' = [NoCall EXCEPT !.op = "reduce", !.opt = op, !.dom = retain,
                !.out = CASE op = "sum_op" -> marginal(fx, retain)
                          [] op = "max_op" -> factor_maximum(fx, retain)
                          [] op = "min_op" -> factor_minimum(fx, retain)]
  /\ UNCHANGED <<extVars, jt, lastOp, engineVars, fx, fy>>

\* collapse(f, agg_op, initialvalue, retained) with f = fy.
CollapseInto(op, retained) ==
  /\ NotCalled
  /\ call' = [NoCall EXCEPT !.op = "collapse_into", !.opt = op,
                !.dom = retained,
                !.out = collapse_into(fx, fy, op, initial_value(op),
                                      retained)]
  /\ UNCHANGED <<extVars, jt, lastOp, engineVars, fx, fy>>

\* A factor over the argument sequence newargs, as left by initialize
\* followed by the reset of args.
reallocate(newargs, default_value) ==
  LET i == initialize(newargs, default_value)
  IN  [args |-> Range(newargs), arg_seq |-> i.arg_seq,
       var_index |-> i.var_index, table_data |-> i.table_data]

\* restrict(f, a): the result is stored in f.
restrict_into(self, f, a) ==
  LET retained == SelectSeq(self.arg_seq, LAMBDA x : x \notin DOMAIN a)
  IN  IF Len(retained) = Len(self.arg_seq)
        THEN IF f.arg_seq = retained
               THEN [f EXCEPT !.table_data = self.table_data]
               ELSE self
        ELSE LET g == IF f.arg_seq # retained
                        THEN reallocate(retained, Zero) ELSE f
             IN  [g EXCEPT !.table_data =
                    table_restrict(g.table_data.shape, self.table_data,
                       make_restrict_map(self.arg_seq, a),
                       make_dim_map(g.arg_seq, self.var_index))]

\* make_restrict_map(vars, a, a_vars): only the variables of a_vars are
\* fixed.
make_restrict_map_subset(vs, a, a_vars) ==
  [i \in 1..Len(vs) |->
     IF vs[i] \in a_vars /\ vs[i] \in DOMAIN a
       THEN a[vs[i]] ELSE retained_dim]

\* A faulty restrict(f, a, a_vars, strict) that never looks at strict.
restrict_subset_lenient(self, f, a, a_vars, strict) ==
  LET retained == SelectSeq(self.arg_seq,
                    LAMBDA x : x \notin a_vars \/ x \notin DOMAIN a)
  IN  IF Len(retained) = Len(self.arg_seq)
        THEN [err |-> "none",
              out |-> IF f.arg_seq = retained
                        THEN [f EXCEPT !.table_data = self.table_data]
                        ELSE self]
      ELSE LET g == IF f.arg_seq # retained
                      THEN reallocate(retained, Zero) ELSE f
           IN  [err |-> "none",
                out |-> [g EXCEPT !.table_data =
                   table_restrict(g.table_data.shape, self.table_data,
                      make_restrict_map_subset(self.arg_seq, a, a_vars),
                      make_dim_map(g.arg_seq, self.var_index))]]

\* restrict(f, a, a_vars, strict): only the arguments in a_vars that a
\* assigns are restricted away; in strict mode an argument in a_vars that a
\* does not assign is an error (std::invalid_argument), raised before f is
\* touched.
restrict_subset(self, f, a, a_vars, strict) ==
  LET unassigned == {x \in self.args : x \in a_vars /\ x \notin DOMAIN a}
      retained == SelectSeq(self.arg_seq,
                    LAMBDA x : x \notin a_vars \/ x \notin DOMAIN a)
  IN  IF strict /\ unassigned # {}
        THEN [err |-> "invalid_argument", out |-> f]
      ELSE IF Len(retained) = Len(self.arg_seq)
        THEN [err |-> "none",
              out |-> IF f.arg_seq = retained
                        THEN [f EXCEPT !.table_data = self.table_data]
                        ELSE self]
      ELSE LET g == IF f.arg_seq # retained
                      THEN reallocate(retained, Zero) ELSE f
           IN  [err |-> "none",
                out |-> [g EXCEPT !.table_data =
                   table_restrict(g.table_data.shape, self.table_data,
                      make_restrict_map_subset(self.arg_seq, a, a_vars),
                      make_dim_map(g.arg_seq, self.var_index))]]

\* The assignments the operands are restricted to.
RestrictAssignments ==
  {Empty, (1 :> 1), (2 :> 0 @@ 3 :> 2), (1 :> 0 @@ 2 :> 1 @@ 3 :> 1)}

\* The subsets the restriction is limited to.
RestrictOnly == {{1}, {2, 3}, FactorVarIds}

Restrict(a) ==
  /\ NotCalled
  /\ call' = [NoCall EXCEPT !.op = "restrict", !.asg = a,
                            !.out = restrict(fx, a)]
  /\ UNCHANGED <<extVars, jt, lastOp, engineVars, fx, fy>>

RestrictInto(a) ==
  /\ NotCalled
  /\ call' = [NoCall EXCEPT !.op = "restrict_into", !.asg = a,
                            !.out = restrict_into(fx, fy, a)]
  /\ UNCHANGED <<extVars, jt, lastOp, engineVars, fx, fy>>

RestrictSubset(a, a_vars, strict) ==
  /\ NotCalled
  /\ LET r == restrict_subset(fx, fy, a, a_vars, strict)
     IN  call' = [NoCall EXCEPT !.op = "restrict_subset", !.asg = a,
                    !.dom = a_vars, !.strict = strict,
                    !.out = r.out, !.err = r.err]
  /\ UNCHANGED <<extVars, jt, lastOp, engineVars, fx, fy>>

\* table_factor(arguments, values): the table is filled with the values in
\* linear order.
table_factor_values(arguments, values) ==
  LET i == initialize(arguments, Zero)
  IN  [args |-> Range(arguments), arg_seq |-> i.arg_seq,
       var_index |-> i.var_index,
       table_data |-> [shape |-> i.table_data.shape, elts |-> values]]

\* A faulty subst_args that renames args and arg_seq but leaves var_index
\* keyed by the old variables.
subst_args_stale_index(f, var_map) ==
  IF \/ ~(f.args \subseteq DOMAIN var_map)
     \/ \E x \in f.args : VarSize(var_map[x]) # VarSize(x)
     \/ \E x, y \in f.args : x # y /\ var_map[x] = var_map[y]
    THEN [err |-> "assertion", out |-> f]
    ELSE [err |-> "none",
          out |-> [args |-> {var_map[x] : x \in f.args},
                   arg_seq |-> [i \in 1..Len(f.arg_seq) |->
                                  var_map[f.arg_seq[i]]],
                   var_index |-> f.var_index,
                   table_data |-> f.table_data]]

\* subst_args(var_map).  subst_vars asserts that the map is 1:1 on the
\* arguments and sends each to a variable of the same size, and safe_get
\* asserts that every argument has an image; the table is left as it is.
subst_args(f, var_map) ==
  IF \/ ~(f.args \subseteq DOMAIN var_map)
     \/ \E x \in f.args : VarSize(var_map[x]) # VarSize(x)
     \/ \E x, y \in f.args : x # y /\ var_map[x] = var_map[y]
    THEN [err |-> "assertion", out |-> f]
    ELSE [err |-> "none",
          out |-> [args |-> {var_map[x] : x \in f.args},
                   arg_seq |-> [i \in 1..Len(f.arg_seq) |->
                                  var_map[f.arg_seq[i]]],
                   var_index |-> [y \in {var_map[x] : x \in f.args} |->
                      f.var_index[CHOOSE x \in f.args : var_map[x] = y]],
                   table_data |-> f.table_data]]

\* The variable maps of subst_args: a renaming of every variable, a swap of
\* two variables, a map that misses variable 1, a map onto a variable of
\* another size, and a map that is not 1:1.
VarMaps ==
  {[x \in FactorVarIds |-> IF x = 1 THEN NumFactorVars + 1 ELSE x],
   [x \in FactorVarIds |-> IF x = 1 THEN 2 ELSE IF x = 2 THEN 1 ELSE x],
   [x \in FactorVarIds \ {1} |-> x],
   [x \in FactorVarIds |-> IF x = 1 THEN 3 ELSE IF x = 3 THEN 1 ELSE x],
   [x \in FactorVarIds |-> IF x = 1 THEN 2 ELSE x]}

SubstArgs(var_map) ==
  /\ NotCalled
  /\ LET r == subst_args(fx, var_map)
     IN  call' = [NoCall EXCEPT !.op = "subst_args", !.asg = var_map,
                                !.out = r.out, !.err = r.err]
  /\ UNCHANGED <<extVars, jt, lastOp, engineVars, fx, fy>>

\* swap(f): the two factors exchange their arguments and their tables.
swap(self, f) == [self |-> f, f |-> self]

\* operator=(other).
assign(self, other) ==
  [args |-> other.args, var_index |-> other.var_index,
   arg_seq |-> other.arg_seq, table_data |-> other.table_data]

\* fx.swap(fy): the factor left on the chosen side.
Swap(side) ==
  /\ NotCalled
  /\ LET r == swap(fx, fy)
     IN  call' = [NoCall EXCEPT !.op = "swap", !.opt = side,
                    !.out = IF side = "self" THEN r.self ELSE r.f]
  /\ UNCHANGED <<extVars, jt, lastOp, engineVars, fx, fy>>

\* fx = fy.
Assign ==
  /\ NotCalled
  /\ call' = [NoCall EXCEPT !.op = "assign", !.out = assign(fx, fy)]
  /\ UNCHANGED <<extVars, jt, lastOp, engineVars, fx, fy>>

\* normalize(): std::invalid_argument when the normalization constant is
\* not positive and finite, and the factor is left as it was.
normalize_checked(f) ==
  IF ~is_positive_finite(norm_constant(f))
    THEN [err |-> "invalid_argument", out |-> f]
    ELSE [err |-> "none", out |-> normalize(f)]

NormalizeFactor ==
  /\ NotCalled
  /\ LET r == normalize_checked(fx)
     IN  call' = [NoCall EXCEPT !.op = "normalize",
                                !.out = r.out, !.err = r.err]
  /\ UNCHANGED <<extVars, jt, lastOp, engineVars, fx, fy>>

\* assignment(index): the assignment of the arguments at a table index.
assignment(f, index) ==
  [x \in f.args |-> index[f.var_index[x] + 1]]

\* conditional(B), for B among the arguments (asserted): every cell is
\* divided, as a double, by the cell of the marginal over B at the same
\* assignment.
conditional(f, B) ==
  LET PB == marginal(f, B)
  IN  [f EXCEPT !.table_data.elts =
         [k \in 1..Len(f.table_data.elts) |->
            divides(f.table_data.elts[k],
                    v(PB, assignment(f, IndexOf(f.table_data.shape,
                                                k - 1))))]]

Conditional(B) ==
  /\ NotCalled
  /\ B \subseteq fx.args
  /\ call' = [NoCall EXCEPT !.op = "conditional", !.dom = B,
                            !.out = conditional(fx, B)]
  /\ UNCHANGED <<extVars, jt, lastOp, engineVars, fx, fy>>

\* universe::new_finite_variable(size): a variable that is none of the
\* operands' variables, identified by its size.
new_finite_variable(size) == 100 + size

\* unroll(u): a factor over one new variable, with the values of the table
\* in linear order.
unroll(f) ==
  LET new_v == new_finite_variable(ShapeSize(f.table_data.shape))
  IN  [new_v |-> new_v,
       newf |-> table_factor_values(<<new_v>>, f.table_data.elts)]

\* A faulty roll_up that lists the original variables in ascending order.
roll_up_sorted(f, orig_arg_list) ==
  table_factor_values(SetToSeq(Range(orig_arg_list)), f.table_data.elts)

\* roll_up(orig_arg_list) of a factor over one variable whose size is the
\* product of the sizes of the listed variables (asserted).
roll_up(f, orig_arg_list) ==
  table_factor_values(orig_arg_list, f.table_data.elts)

Unroll ==
  /\ NotCalled
  /\ call' = [NoCall EXCEPT !.op = "unroll", !.out = unroll(fx).newf]
  /\ UNCHANGED <<extVars, jt, lastOp, engineVars, fx, fy>>

\* roll_up of the unrolled factor with the factor's own argument list.
RollUp ==
  /\ NotCalled
  /\ call' = [NoCall EXCEPT !.op = "roll_up",
                            !.out = roll_up(unroll(fx).newf, fx.arg_seq)]
  /\ UNCHANGED <<extVars, jt, lastOp, engineVars, fx, fy>>

\* set_union(a, b) of a domain and one variable: the result is a copy of a
\* into which the domain a itself, not the variable b, is handed to insert.
\* std::set has no insert taking a set, so the template is ill-formed when
\* instantiated; b is never added.
set_union_var(a, b) == [err |-> "ill_formed", set |-> a]

\* The domain operations on the argument sets of the operands.
DomainUnion ==
  /\ NotCalled
  /\ call' = [NoCall EXCEPT !.op = "set_union",
                            !.set = set_union(fx.args, fy.args)]
  /\ UNCHANGED <<extVars, jt, lastOp, engineVars, fx, fy>>

DomainIntersection ==
  /\ NotCalled
  /\ call' = [NoCall EXCEPT !.op = "intersection",
                            !.set = intersection(fx.args, fy.args)]
  /\ UNCHANGED <<extVars, jt, lastOp, engineVars, fx, fy>>

DomainDifference ==
  /\ NotCalled
  /\ call' = [NoCall EXCEPT !.op = "difference",
                            !.set = difference(fx.args, fy.args)]
  /\ UNCHANGED <<extVars, jt, lastOp, engineVars, fx, fy>>

DomainUnionVar(x) ==
  /\ NotCalled
  /\ LET r == set_union_var(fx.args, x)
     IN  call' = [NoCall EXCEPT !.op = "set_union_var", !.var = x,
                                !.set = r.set, !.err = r.err]
  /\ UNCHANGED <<extVars, jt, lastOp, engineVars, fx, fy>>

FactorNext ==
  \/ DomainUnion
  \/ DomainIntersection
  \/ DomainDifference
  \/ \E x \in FactorVarIds : DomainUnionVar(x)
  \/ \E op \in OpTypes : Combine(op)
  \/ \E op \in OpTypes : CombineIn(op)
  \/ \E op \in OpTypes, R \in RetainedDomains : Collapse(op, R)
  \/ \E op \in {"sum_op", "max_op", "min_op"}, R \in RetainedDomains :
       Reduce(op, R)
  \/ \E op \in {"sum_op", "max_op"}, R \in RetainedDomains :
       CollapseInto(op, R)
  \/ \E a \in RestrictAssignments : Restrict(a)
  \/ \E a \in RestrictAssignments : RestrictInto(a)
  \/ \E a \in RestrictAssignments, R \in RestrictOnly,
        strict \in BOOLEAN : RestrictSubset(a, R, strict)
  \/ \E m \in VarMaps : SubstArgs(m)
  \/ \E side \in {"self", "f"} : Swap(side)
  \/ Assign
  \/ NormalizeFactor
  \/ \E B \in RetainedDomains : Conditional(B)
  \/ Unroll
  \/ RollUp

SpecFactor == InitFactor /\ [][FactorNext]_vars

(***************************************************************************)
(* Properties of the table_factor operations (checked under SpecFactor).   *)
(***************************************************************************)
\* The functor of an op_type applied to two values.
apply_op(op, x, y) ==
  CASE op = "sum_op" -> plus(x, y)
    [] op = "minus_op" -> minus(x, y)
    [] op = "product_op" -> multiplies(x, y)
    [] op = "divides_op" -> safe_divides(x, y)
    [] op = "max_op" -> maximum(x, y)
    [] op = "min_op" -> minimum(x, y)
    [] op = "and_op" -> logical_and(x, y)
    [] op = "or_op" -> logical_or(x, y)

\* C11: for any factors A and B and any op among sum, difference, product,
\* divide, max, min, and, or, combine(A, B, op) is a factor over the union
\* of the arguments whose value at every assignment a of the union is
\* op(A(a), B(a)), each operand read at a restricted to its own arguments.
C11_Combine ==
  call.op = "combine" =>
    /\ call.out.args = fx.args \cup fy.args
    /\ \A a \in Assignments(fx.args \cup fy.args) :
         v(call.out, a) =
           apply_op(call.opt, v(fx, [x \in fx.args |-> a[x]]),
                              v(fy, [x \in fy.args |-> a[x]]))

\* A division of two factors each of which has an argument the other
\* lacks, whose dimensions are not in ascending order, with a zero divisor.
C11_Witness ==
  /\ call.op = "combine"
  /\ call.opt = "divides_op"
  /\ fx.args \ fy.args # {}
  /\ fy.args \ fx.args # {}
  /\ fx.args \cap fy.args # {}
  /\ fx.arg_seq # SetToSeq(fx.args)
  /\ fy.arg_seq # SetToSeq(fy.args)
  /\ \E k \in 1..Len(fy.table_data.elts) : fy.table_data.elts[k] = Zero

\* The sum of F(X = x, Y = y) over the values y = 0 .. n - 1 of Y.
RECURSIVE sum_over(_, _, _, _, _)
sum_over(f, X, x, Y, n) ==
  IF n = 0 THEN Zero
  ELSE plus(sum_over(f, X, x, Y, n - 1), v(f, (X :> x) @@ (Y :> (n - 1))))

\* C12: for a factor F over {X, Y}, the collapse of F with sum onto {X} has
\* at each x the sum over all y of F(x, y); the factor over two binary
\* variables made from the values 1, 2, 3, 4, X varying fastest, has the
\* marginal [4, 6] over X.
C12_Marginal ==
  /\ (/\ call.op \in {"reduce", "collapse"}
      /\ call.opt = "sum_op"
      /\ Cardinality(fx.args) = 2
      /\ call.dom \subseteq fx.args
      /\ Cardinality(call.dom) = 1) =>
       LET X == CHOOSE x \in call.dom : TRUE
           Y == CHOOSE y \in fx.args : y # X
       IN  /\ call.out.args = {X}
           /\ \A x \in 0..(VarSize(X) - 1) :
                v(call.out, (X :> x)) = sum_over(fx, X, x, Y, VarSize(Y))
  /\ (/\ call.op \in {"reduce", "collapse"}
      /\ call.opt = "sum_op"
      /\ fx = make_dense_table_factor(<<1, 2>>,
                 <<(<<1, 1>>), (<<2, 1>>), (<<3, 1>>), (<<4, 1>>)>>)
      /\ call.dom = {1}) =>
       /\ v(fx, (1 :> 0) @@ (2 :> 0)) = <<1, 1>>
       /\ v(fx, (1 :> 1) @@ (2 :> 0)) = <<2, 1>>
       /\ v(fx, (1 :> 0) @@ (2 :> 1)) = <<3, 1>>
       /\ v(fx, (1 :> 1) @@ (2 :> 1)) = <<4, 1>>
       /\ call.out.arg_seq = <<1>>
       /\ call.out.table_data.elts = <<(<<4, 1>>), (<<6, 1>>)>>

\* marginal({X}) of the factor over (X, Y) with the values 1, 2, 3, 4.
C12_Witness ==
  /\ call.op = "reduce"
  /\ call.opt = "sum_op"
  /\ call.dom = {1}
  /\ fx.arg_seq = <<1, 2>>
  /\ fx.table_data.elts = <<(<<1, 1>>), (<<2, 1>>), (<<3, 1>>), (<<4, 1>>)>>
  /\ call.out.table_data.elts = <<(<<4, 1>>), (<<6, 1>>)>>

\* C13: when the arguments of A include those of B, the in-place
\* combination A op= B (+=, -=, *=, /=, max, min, logical_and, logical_or)
\* leaves the argument set and the dimension order of A unchanged and gives
\* A the same value at every assignment as the generic combine(A, B, op).
C13_CombineInPlace ==
  (call.op = "combine_in" /\ fy.args \subseteq fx.args) =>
    /\ call.out.args = fx.args
    /\ call.out.arg_seq = fx.arg_seq
    /\ call.out.var_index = fx.var_index
    /\ call.out.table_data.shape = fx.table_data.shape
    /\ \A a \in Assignments(fx.args) :
         v(call.out, a) = v(combine(fx, fy, call.opt), a)

\* An in-place difference where A has three arguments that are not in
\* ascending order and B has two of them in yet another order.
C13_Witness ==
  /\ call.op = "combine_in"
  /\ call.opt = "minus_op"
  /\ Len(fx.arg_seq) = 3
  /\ fx.arg_seq # SetToSeq(fx.args)
  /\ Len(fy.arg_seq) = 2
  /\ fy.arg_seq # SetToSeq(fy.args)
  /\ call.out # fx

\* The value left by folding op from its initial value over the cells of f
\* that agree with the assignment a of the retained arguments, E being the
\* assignments of the eliminated arguments still to be folded in.
RECURSIVE fold_over(_, _, _, _)
fold_over(op, f, a, E) ==
  IF E = {} THEN initial_value(op)
  ELSE LET e == CHOOSE x \in E : TRUE
       IN  apply_op(op, fold_over(op, f, a, E \ {e}), v(f, a @@ e))

CollapseCalls == {"collapse", "reduce", "collapse_into"}

\* C14 as stated: collapse, marginal, maximum and minimum called with the
\* retained domain R return a factor whose argument set is R.
C14_AsStated ==
  call.op \in CollapseCalls => call.out.args = call.dom

\* C14 (amended): collapse, marginal, maximum and minimum called with the
\* retained domain R return a factor over the arguments of the input that
\* belong to R; when some argument is eliminated, the value at every
\* assignment of the result is the fold of the operator, from its initial
\* value, over the eliminated arguments, and when none is eliminated the
\* result has the values of the input.
C14_Collapse ==
  call.op \in CollapseCalls =>
    /\ call.out.args = fx.args \cap call.dom
    /\ IF fx.args \subseteq call.dom
         THEN \A a \in Assignments(fx.args) : v(call.out, a) = v(fx, a)
         ELSE \A a \in Assignments(fx.args \cap call.dom) :
                v(call.out, a) =
                  fold_over(call.opt, fx, a,
                            Assignments(fx.args \ call.dom))

\* A product collapse that eliminates one of two arguments while the
\* retained domain names a variable the factor does not have.
C14_Witness ==
  /\ call.op = "collapse"
  /\ call.opt = "product_op"
  /\ fx.arg_seq = <<2, 1>>
  /\ call.dom = {1, 3}
  /\ call.out.args = {1}
  /\ call.out.table_data.elts # fx.table_data.elts

\* The representation of a table factor is consistent: arg_seq lists each
\* argument exactly once, var_index is its inverse, and the table has one
\* dimension per argument, of the argument's size.
consistent(f) ==
  /\ Len(f.arg_seq) = Cardinality(f.args)
  /\ Range(f.arg_seq) = f.args
  /\ DOMAIN f.var_index = f.args
  /\ \A i \in 1..Len(f.arg_seq) : f.var_index[f.arg_seq[i]] = i - 1
  /\ Len(f.table_data.shape) = Len(f.arg_seq)
  /\ \A i \in 1..Len(f.arg_seq) :
       f.table_data.shape[i] = VarSize(f.arg_seq[i])
  /\ Len(f.table_data.elts) = ShapeSize(f.table_data.shape)

\* C15: after construction and after every operation that changes a
\* factor's arguments (subst_args, restrict, collapse, combine, swap,
\* assignment, and the others that build a factor), the representation is
\* consistent: arg_seq lists each element of args exactly once, var_index
\* maps arg_seq[i] to i, and shape[i] is the size of arg_seq[i].
C15_Consistent ==
  /\ consistent(fx)
  /\ consistent(fy)
  /\ call.err = "none" => consistent(call.out)

\* A completed subst_args that renamed one of three arguments.
C15_Witness ==
  /\ call.op = "subst_args"
  /\ call.err = "none"
  /\ Len(fx.arg_seq) = 3
  /\ call.out.args # fx.args
  /\ call.out.arg_seq # fx.arg_seq

\* C16 as stated: normalize() called on a factor whose sum over all cells
\* is non-positive or non-finite fails with an InvalidOperation /
\* NormalizationError error.
C16_AsStated ==
  (call.op = "normalize" /\ ~is_positive_finite(norm_constant(fx))) =>
    call.err \in {"invalid_operation", "normalization_error"}

\* normalize() on the factor with cells +infinity and 1: the call fails,
\* with std::invalid_argument, and the factor is left as it was.
C16_Witness ==
  /\ call.op = "normalize"
  /\ fx.arg_seq = <<1>>
  /\ fx.table_data.elts = <<Inf, One>>
  /\ call.err = "invalid_argument"
  /\ call.out = fx

\* The arguments of fx in the restrict-only subset that the assignment of
\* the call gives no value.
unassigned_arguments == {x \in fx.args \cap call.dom : x \notin DOMAIN call.asg}

\* C17: restrict in strict mode fails with InvalidArgument whenever some
\* argument of the factor in the restrict-only subset has no value in the
\* assignment; in non-strict mode the same call succeeds, that argument
\* remains an argument of the result, and exactly the arguments that are in
\* the subset and assigned are restricted away.
C17_StrictRestrict ==
  (call.op = "restrict_subset" /\ unassigned_arguments # {}) =>
    IF call.strict
      THEN call.err = "invalid_argument" /\ call.out = fy
      ELSE /\ call.err = "none"
           /\ unassigned_arguments \subseteq call.out.args
           /\ call.out.args = fx.args \ (call.dom \cap DOMAIN call.asg)
           /\ \A a \in Assignments(call.out.args) :
                v(call.out, a) =
                  v(fx, [x \in fx.args |->
                           IF x \in call.out.args THEN a[x]
                           ELSE call.asg[x]])

\* A strict restrict of a factor over three arguments, all nominally
\* restricted, by an assignment that gives a value to variable 1 only.
C17_Witness ==
  /\ call.op = "restrict_subset"
  /\ call.strict
  /\ Cardinality(fx.args) = 3
  /\ call.dom = FactorVarIds
  /\ DOMAIN call.asg = {1}
  /\ call.err = "invalid_argument"

\* C18 as stated: for every normalizable factor F and every B among its
\* arguments, conditional(F, B) * marginal(F, B) equals F at every
\* assignment.
C18_AsStated ==
  (call.op = "conditional" /\ is_normalizable(fx)) =>
    LET product == combine(call.out, marginal(fx, call.dom), "product_op")
    IN  \A a \in Assignments(fx.args) : v(product, a) = v(fx, a)

\* conditional({2}) of the normalizable factor with values 1, 1, 0, 0 over
\* the variables 1, 2: the marginal over 2 is 0 at value 1, and the two
\* cells there become 0 / 0.
C18_Witness ==
  /\ call.op = "conditional"
  /\ call.dom = {2}
  /\ fx.arg_seq = <<1, 2>>
  /\ fx.table_data.elts = <<One, One, Zero, Zero>>
  /\ is_normalizable(fx)
  /\ call.out.table_data.elts = <<Rat(1, 2), Rat(1, 2), NaN, NaN>>
  /\ combine(call.out, marginal(fx, call.dom),
             "product_op").table_data.elts[3] = NaN

\* C19 as stated: unroll maps a factor whose arguments are listed (A, B, C)
\* to a factor over one new variable such that new(index) = F(a, b, c) with
\* index = (a * |B| + b) * |C| + c, the first listed variable being the
\* most significant digit.
C19_AsStated ==
  call.op = "unroll" =>
    \A a \in Assignments(fx.args) :
      LET index == [i \in 1..Len(fx.arg_seq) |-> a[fx.arg_seq[i]]]
          new_v == CHOOSE x \in call.out.args : TRUE
      IN  v(call.out, new_v :> msd_index(fx.table_data.shape, index,
                                         Len(fx.arg_seq)))
            = v(fx, a)

\* unroll of the factor with values 1, 2, 3, 4 over the variables 1, 2:
\* the new factor has the same values in the same linear order, so its
\* value at index 1 is F(1, 0) = 2 and not F(0, 1) = 3.
C19_Witness ==
  /\ call.op = "unroll"
  /\ fx.arg_seq = <<1, 2>>
  /\ fx.table_data.elts = <<(<<1, 1>>), (<<2, 1>>), (<<3, 1>>), (<<4, 1>>)>>
  /\ call.out.args = {new_finite_variable(4)}
  /\ v(call.out, new_finite_variable(4) :> 1) = v(fx, 1 :> 1 @@ 2 :> 0)
  /\ v(fx, 1 :> 0 @@ 2 :> 1) = <<3, 1>>
  /\ v(call.out, new_finite_variable(4) :> 1) = <<2, 1>>

\* C20: roll_up(unroll(F)), roll_up being given the argument list of F,
\* equals F exactly: same argument set and same value at every assignment,
\* for any factor F and any ordering of its variables.
C20_RoundTrip ==
  call.op = "roll_up" =>
    /\ call.out.args = fx.args
    /\ \A a \in Assignments(fx.args) : v(call.out, a) = v(fx, a)
    /\ call.out = fx

\* The round trip of a factor over three variables listed as 3, 1, 2, whose
\* unrolled form is over one variable of size 12.
C20_Witness ==
  /\ call.op = "roll_up"
  /\ fx.arg_seq = <<3, 1, 2>>
  /\ fx.table_data.elts[1] # fx.table_data.elts[2]
  /\ unroll(fx).newf.args = {new_finite_variable(12)}
  /\ call.out.arg_seq = <<3, 1, 2>>

CommutativeOps == {"sum_op", "product_op", "max_op", "min_op", "and_op",
                   "or_op"}

\* No cell of the factor is NaN.
no_nan(f) == \A k \in 1..Len(f.table_data.elts) : f.table_data.elts[k] # NaN

DomainOperationsExact ==
  /\ call.op = "set_union" =>
       /\ \A x \in FactorVarIds :
            x \in call.set <=> (x \in fx.args \/ x \in fy.args)
       /\ fy.args = {} => call.set = fx.args
       /\ fx.args = {} => call.set = fy.args
  /\ call.op = "intersection" =>
       /\ \A x \in FactorVarIds :
            x \in call.set <=> (x \in fx.args /\ x \in fy.args)
       /\ (fx.args = {} \/ fy.args = {}) => call.set = {}
  /\ call.op = "difference" =>
       \A x \in FactorVarIds :
         x \in call.set <=> (x \in fx.args /\ x \notin fy.args)

\* C22 as stated: set_union, intersection and difference return exactly
\* the mathematical union, intersection and difference of their operands,
\* union with the empty set returns the other operand, intersection with
\* the empty set is empty, and set_union(A, x) with a single variable x
\* returns A with x added.
C22_AsStated ==
  /\ DomainOperationsExact
  /\ call.op = "set_union_var" =>
       /\ call.err = "none"
       /\ call.set = fx.args \cup {call.var}

\* set_union(A, x) with A = {1, 2} and x = 3: x is not added.
C22_Witness ==
  /\ call.op = "set_union_var"
  /\ fx.args = {1, 2}
  /\ call.var = 3
  /\ call.var \notin call.set
  /\ call.err = "ill_formed"

(***************************************************************************)
(* timed_process: the instances of a process at the time steps, created    *)
(* on first use and kept.                                                  *)
(***************************************************************************)
\* current(): the special instance for the current step.
current(p) ==
  LET q == IF p.var_current = 0
             THEN [p EXCEPT !.var_current = p.allocated + 1,
                            !.allocated = p.allocated + 1]
             ELSE p
  IN  [q EXCEPT !.ret = q.var_current]

\* next(): the special instance for the next step.
next(p) ==
  LET q == IF p.var_next = 0
             THEN [p EXCEPT !.var_next = p.allocated + 1,
                            !.allocated = p.allocated + 1]
             ELSE p
  IN  [q EXCEPT !.ret = q.var_next]

\* vars[step]: the entry of the map, inserted as NULL when absent.
entry(p, step) == IF step \in DOMAIN p.vars THEN p.vars[step] ELSE 0

\* A faulty at that does not treat current_step and next_step apart.
at_unaliased(p, step) ==
  IF entry(p, step) = 0
    THEN [p EXCEPT !.vars = [s \in DOMAIN p.vars \cup {step} |->
                               IF s = step THEN p.allocated + 1
                               ELSE p.vars[s]],
                   !.allocated = p.allocated + 1,
                   !.ret = p.allocated + 1]
    ELSE [p EXCEPT !.ret = p.vars[step]]

\* at(step): the instance of the process at the given time step.
at(p, step) ==
  IF step = current_step THEN current(p)
  ELSE IF step = next_step THEN next(p)
  ELSE IF entry(p, step) = 0
    THEN [p EXCEPT !.vars = [s \in DOMAIN p.vars \cup {step} |->
                               IF s = step THEN p.allocated + 1
                               ELSE p.vars[s]],
                   !.allocated = p.allocated + 1,
                   !.ret = p.allocated + 1]
    ELSE [p EXCEPT !.ret = p.vars[step]]

restOfProcess == <<jt, lastOp, engineVars, factorVars, iterVars, lr>>

At(step) ==
  /\ LET q == at(tp, step)
     IN  tp' = [q EXCEPT !.seen_at[step] = @ \cup {q.ret}]
  /\ UNCHANGED restOfProcess

Current ==
  /\ LET q == current(tp)
     IN  tp' = [q EXCEPT !.seen_current = @ \cup {q.ret}]
  /\ UNCHANGED restOfProcess

NextInstance ==
  /\ LET q == next(tp)
     IN  tp' = [q EXCEPT !.seen_next = @ \cup {q.ret}]
  /\ UNCHANGED restOfProcess

InitProcess ==
  /\ jt = empty_tree
  /\ lastOp = NoEdit
  /\ EngineUnbuilt
  /\ FactorIdle

ProcessNext ==
  \/ \E step \in Steps : At(step)
  \/ Current
  \/ NextInstance

SpecProcess == InitProcess /\ [][ProcessNext]_vars

\* C23: at(step) returns the same variable object on every invocation with
\* the same step, however the calls are interleaved with at() for other
\* steps and with current() and next(); at(current_step) and at(next_step)
\* return the objects returned by current() and next(); no call returns
\* NULL.
C23_SameObject ==
  /\ \A s \in Steps : Cardinality(tp.seen_at[s]) <= 1
  /\ Cardinality(tp.seen_at[current_step] \cup tp.seen_current) <= 1
  /\ Cardinality(tp.seen_at[next_step] \cup tp.seen_next) <= 1
  /\ 0 \notin UNION {tp.seen_at[s] : s \in Steps}
                \cup tp.seen_current \cup tp.seen_next

\* Every step has been asked for, the special steps by both routes, and
\* the last call returned the object created first.
C23_Witness ==
  /\ \A s \in Steps : tp.seen_at[s] # {}
  /\ tp.seen_current # {}
  /\ tp.seen_next # {}
  /\ tp.allocated = 5
  /\ tp.ret = 1

(***************************************************************************)
(* decomposable_iterator: the step-wise search over the models one step    *)
(* away from an initial decomposable model.  A decomposable model is a     *)
(* junction tree with a potential on every vertex and every edge.  A       *)
(* potential is identified by its arguments and by where it comes from:    *)
(* the initial model, the data (data_ptr->marginal), or the default        *)
(* constructor.  decomposable, junction_tree and subset_iterator are not   *)
(* among the sources; containers are iterated in ascending order.          *)
(***************************************************************************)
default_factor == [args |-> {}, by |-> "default"]

\* data_ptr->marginal<F>(args, smooth).
data_marginal(args) == [args |-> args, by |-> "data"]

\* p.marginal(retain).
potential_marginal(p, retain) == [args |-> p.args \cap retain, by |-> p.by]

\* model.potential(u) = f and model.potential(e) = f.
set_vertex_potential(m, u, f) ==
  [m EXCEPT !.vpot = [x \in DOMAIN m.vpot |-> IF x = u THEN f ELSE m.vpot[x]]]

set_edge_potential(m, e, f) ==
  [m EXCEPT !.epot = [x \in DOMAIN m.epot |-> IF x = e THEN f ELSE m.epot[x]]]

model_add_vertex(m, u, clique) ==
  [m EXCEPT !.jt = add_vertex(m.jt, u, clique),
            !.vpot = [x \in vertices(m.jt) \cup {u} |->
                        IF x = u THEN default_factor ELSE m.vpot[x]]]

model_remove_vertex(m, u) ==
  LET t == remove_vertex(m.jt, u)
  IN  [jt |-> t, vpot |-> [x \in vertices(t) |-> m.vpot[x]],
       epot |-> [x \in t.edges |-> m.epot[x]]]

model_add_edge(m, u, w) ==
  LET t == add_edge(m.jt, u, w)
  IN  [m EXCEPT !.jt = t,
                !.epot = [x \in t.edges |->
                            IF x = {u, w} THEN default_factor
                                          ELSE m.epot[x]]]

model_remove_edge(m, u, w) ==
  LET t == remove_edge(m.jt, u, w)
  IN  [m EXCEPT !.jt = t, !.epot = [x \in t.edges |-> m.epot[x]]]

model_set_clique(m, u, clique) ==
  [m EXCEPT !.jt = set_clique(m.jt, u, clique)]

\* jt_ptr->merge(e) on the tree of a model: an edge that moves from the
\* source to the target keeps its potential.
model_merge(m, source, target) ==
  LET t == merge(m.jt, source, target)
  IN  [jt |-> t, vpot |-> [x \in vertices(t) |-> m.vpot[x]],
       epot |-> [x \in t.edges |->
                   IF x \in m.jt.edges THEN m.epot[x]
                   ELSE m.epot[(x \ {target}) \cup {source}]]]

\* The targets of the out-edges of u, in iteration order.
out_edges(t, u) == SetToSeq(neighbors(t, u))

\* The undirected edges as <<lower, higher>> pairs, in iteration order.
RECURSIVE EdgeSeq(_)
EdgeSeq(E) ==
  IF E = {} THEN <<>>
  ELSE LET key(x) == Min(x) * 1000 + Min(x \ {Min(x)})
           first == CHOOSE x \in E : \A y \in E : key(x) <= key(y)
       IN  <<<<Min(first), Min(first \ {Min(first)})>>>>
             \o EdgeSeq(E \ {first})

undir_edges(t) == EdgeSeq(t.edges)

\* subset_iterator<domain>(s, lo, hi): the subsets of s with at least lo
\* and at most hi elements, smaller subsets first.
RECURSIVE SubsetKey(_)
SubsetKey(S) == IF S = {} THEN 0 ELSE 2 ^ Min(S) + SubsetKey(S \ {Min(S)})

RECURSIVE SubsetSeq(_)
SubsetSeq(Q) ==
  IF Q = {} THEN <<>>
  ELSE LET key(x) == Cardinality(x) * 1000 + SubsetKey(x)
           first == CHOOSE x \in Q : \A y \in Q : key(x) <= key(y)
       IN  <<first>> \o SubsetSeq(Q \ {first})

subset_iterator(s, lo, hi) ==
  SubsetSeq({x \in SUBSET s : Cardinality(x) >= lo /\ Cardinality(x) <= hi})

\* a - b in domain::size_type: an unsigned difference below zero wraps
\* around to a size above that of every set.
max_size == 2147483647

\* A difference of sizes that adds instead of subtracting.
size_sum(a, b) == a + b

size_minus(a, b) == IF a >= b THEN a - b ELSE max_size - (b - a) + 1

\* The vertex that add_vertex creates: a build either hands out a
\* descriptor that was released before or one that was never used.
new_vertex(it) ==
  IF it.reuse
    THEN Min({x \in 1..(Cardinality(vertices(it.model.jt)) + 1) :
                x \notin vertices(it.model.jt)})
    ELSE it.next_vertex

\* add_vertex(clique) on the model of an iterator.
iter_add_vertex(it, clique) ==
  LET u == new_vertex(it)
  IN  [it EXCEPT !.model = model_add_vertex(it.model, u, clique),
                 !.next_vertex = IF u >= it.next_vertex THEN u + 1
                                 ELSE it.next_vertex]

\* The information of a step type that has just been allocated: only
\* inside is initialised by the constructors.
push_back_subtree_info ==
  [inside |-> TRUE, v_seq |-> <<>>, v_i |-> 1, v_args |-> {},
   d_seq |-> <<>>, d_i |-> 1, e_seq |-> <<>>, e_i |-> 1, s_args |-> {},
   v2 |-> 0, v2_args |-> {}, v2_arg_subset |-> <<>>, d2_i |-> 1,
   orig_c_potential |-> default_factor, orig_v2_args |-> {},
   orig_s_potentials |-> <<>>]

\* A faulty collection that keeps every variable of a separator of v2.
RECURSIVE collect_any(_, _, _, _, _)
collect_any(t, u, es, subset, subset2) ==
  IF es = <<>> THEN subset
  ELSE collect_any(t, u, Tail(es), subset \cup t.sep[{u, Head(es)}], subset2)

\* Lines 958-974: the variables of v2 that are in exactly one separator of
\* v2, computed over the out-edges of v2 in order.
RECURSIVE collect_single(_, _, _, _, _)
collect_single(t, u, es, subset, subset2) ==
  IF es = <<>> THEN subset
  ELSE LET new_vars == t.sep[{u, Head(es)}]
           kept == subset \ new_vars
           fresh == new_vars \ subset2
       IN  collect_single(t, u, Tail(es), kept \cup fresh,
                          subset2 \cup fresh)

\* Lines 983-1032: replace *d2_it with *d_it in v2 and update the
\* potentials of v2 and of its separators.
RECURSIVE push_back_separators(_, _, _, _, _, _)
push_back_separators(m, saved, es, i, d, d2) ==
  IF es = <<>> THEN [m |-> m, saved |-> saved]
  ELSE LET e2 == {i.v2, Head(es)}
           sp == m.jt.sep[e2]
       IN  IF Head(es) = i.v_seq[i.v_i]
             THEN push_back_separators(
                    set_edge_potential(m, e2, data_marginal(sp \cup {d})),
                    Append(saved, <<e2, m.epot[e2]>>), Tail(es), i, d, d2)
             ELSE IF d2 \in sp
               THEN push_back_separators(
                      set_edge_potential(m, e2,
                         potential_marginal(m.epot[e2], sp \ {d2})),
                      Append(saved, <<e2, m.epot[e2]>>), Tail(es), i, d, d2)
               ELSE push_back_separators(m, saved, Tail(es), i, d, d2)

push_back_change(it) ==
  LET i == it.info["STEP_LOCAL_PUSH_BACK_SUBTREE"]
      d == i.d_seq[i.d_i]
      d2 == i.v2_arg_subset[i.d2_i]
      v2_args == (i.v2_args \ {d2}) \cup {d}
      m1 == set_vertex_potential(it.model, i.v2, data_marginal(v2_args))
      r == push_back_separators(m1, <<>>, out_edges(m1.jt, i.v2), i, d, d2)
  IN  [it EXCEPT
         !.model = model_set_clique(r.m, i.v2, v2_args),
         !.info["STEP_LOCAL_PUSH_BACK_SUBTREE"] =
            [i EXCEPT !.orig_c_potential = it.model.vpot[i.v2],
                      !.orig_v2_args = i.v2_args,
                      !.orig_s_potentials = r.saved,
                      !.v2_args = v2_args,
                      !.inside = FALSE]]

\* Lines 1036-1048: restore the saved potentials and the saved clique of v2
\* and move to the next variable of v2.
RECURSIVE restore_potentials(_, _)
restore_potentials(m, saved) ==
  IF saved = <<>> THEN m
  ELSE restore_potentials(
         set_edge_potential(m, Head(saved)[1], Head(saved)[2]),
                          Tail(saved))

push_back_restore(it) ==
  LET i == it.info["STEP_LOCAL_PUSH_BACK_SUBTREE"]
      m1 == set_vertex_potential(it.model, i.v2, i.orig_c_potential)
      m2 == restore_potentials(m1, i.orig_s_potentials)
  IN  [it EXCEPT
         !.model = model_set_clique(m2, i.v2, i.orig_v2_args),
         !.info["STEP_LOCAL_PUSH_BACK_SUBTREE"] =
            [i EXCEPT !.inside = TRUE, !.d2_i = i.d2_i + 1]]

\* The loops of step_local_push_back_subtree from the loop named by pc, with
\* inside true: the result is the iterator at the next candidate (done_step
\* false) or after the last vertex (done_step true).
RECURSIVE push_back_scan(_, _)
push_back_scan(it, pc) ==
  LET k == "STEP_LOCAL_PUSH_BACK_SUBTREE"
      i == it.info[k]
      t == it.model.jt
  IN  CASE pc = "v" ->
             IF i.v_i > Len(i.v_seq) THEN [it |-> it, done_step |-> TRUE]
             ELSE push_back_scan(
                    [it EXCEPT !.info[k] =
                       [i EXCEPT !.v_args = t.cliques[i.v_seq[i.v_i]],
                                 !.d_seq = SetToSeq(t.cliques[i.v_seq[i.v_i]]),
                                 !.d_i = 1]], "d")
        [] pc = "d" ->
             IF i.d_i > Len(i.d_seq)
               THEN push_back_scan(
                      [it EXCEPT !.info[k] = [i EXCEPT !.v_i = i.v_i + 1]],
                      "v")
               ELSE push_back_scan(
                      [it EXCEPT !.info[k] =
                         [i EXCEPT !.e_seq = out_edges(t, i.v_seq[i.v_i]),
                                   !.e_i = 1]], "e")
        [] pc = "e" ->
             IF i.e_i > Len(i.e_seq)
               THEN push_back_scan(
                      [it EXCEPT !.info[k] = [i EXCEPT !.d_i = i.d_i + 1]],
                      "d")
               ELSE LET v2 == i.e_seq[i.e_i]
                        s_args == t.sep[{i.v_seq[i.v_i], v2}]
                    IN  IF i.d_seq[i.d_i] \in s_args
                          THEN push_back_scan(
                                 [it EXCEPT !.info[k] =
                                    [i EXCEPT !.s_args = s_args, !.v2 = v2,
                                              !.v2_args = t.cliques[v2],
                                              !.e_i = i.e_i + 1]], "e")
                          ELSE push_back_scan(
                                 [it EXCEPT !.info[k] =
                                    [i EXCEPT
                                       !.s_args = s_args, !.v2 = v2,
                                       !.v2_args = t.cliques[v2],
                                       !.v2_arg_subset =
                                          SetToSeq(collect_single(t, v2,
                                             out_edges(t, v2), {}, {})
                                             \ s_args),
                                       !.d2_i = 1]], "d2")
        [] pc = "d2" ->
             IF i.d2_i > Len(i.v2_arg_subset)
               THEN push_back_scan(
                      [it EXCEPT !.info[k] = [i EXCEPT !.e_i = i.e_i + 1]],
                      "e")
               ELSE [it |-> push_back_change(it), done_step |-> FALSE]

\* step_local_push_back_subtree().
step_local_push_back_subtree(it) ==
  LET k == "STEP_LOCAL_PUSH_BACK_SUBTREE"
      i == it.info[k]
  IN  IF i.inside
        THEN push_back_scan(
               [it EXCEPT !.info[k] =
                  [i EXCEPT !.v_seq = SetToSeq(vertices(it.model.jt)),
                            !.v_i = 1]], "v")
        ELSE push_back_scan(push_back_restore(it), "d2")

\* post_order_traversal(graph, start, edge visitor): the edges of the
\* component of the start vertex, each pointing towards the start vertex,
\* the edges below a vertex before the edge that leaves it.
RECURSIVE post_order_edges(_, _, _)
post_order_edges(t, u, ws) ==
  IF ws = <<>> THEN <<>>
  ELSE LET w == Head(ws)
           below == SetToSeq(neighbors(t, w) \ {u})
       IN  post_order_edges(t, w, below) \o <<<<w, u>>>>
             \o post_order_edges(t, u, Tail(ws))

\* local_combine_nodes_info_t(jt).
combine_nodes_info(t) ==
  [inside |-> TRUE,
   edge_vec |-> IF vertices(t) = {} THEN <<>>
                ELSE post_order_edges(t, Min(vertices(t)),
                        out_edges(t, Min(vertices(t)))),
   e_i |-> 1, v1 |-> 0, v2 |-> 0, clique_union |-> {},
   orig_v1_potential |-> default_factor,
   orig_v2_potential |-> default_factor,
   orig_v1_args |-> {}, orig_v2_args |-> {},
   orig_v1_neighbor_set |-> {}, orig_v2_neighbors |-> <<>>]

\* Lines 1094-1137: save the two cliques and their neighbourhoods, merge
\* the source of the edge into its target and set the potential of the
\* merged clique.
combine_nodes_change(it) ==
  LET k == "STEP_LOCAL_COMBINE_NODES"
      i == it.info[k]
      m == it.model
      t == m.jt
      a1 == t.cliques[i.v1]
      a2 == t.cliques[i.v2]
      nb2 == out_edges(t, i.v2)
      merged == model_merge(m, i.v2, i.v1)
  IN  [it EXCEPT
         !.model =
            set_vertex_potential(merged, i.v1,
               IF includes(a1, a2) THEN m.vpot[i.v1]
               ELSE IF includes(a2, a1) THEN m.vpot[i.v2]
               ELSE data_marginal(i.clique_union)),
         !.info[k] =
            [i EXCEPT
               !.orig_v1_potential = m.vpot[i.v1],
               !.orig_v2_potential = m.vpot[i.v2],
               !.orig_v1_args = a1, !.orig_v2_args = a2,
               !.orig_v1_neighbor_set = neighbors(t, i.v1) \ {i.v2},
               !.orig_v2_neighbors =
                  [n \in 1..Len(nb2) |-> <<nb2[n], m.epot[{i.v2, nb2[n]}]>>],
               !.inside = FALSE]]

RECURSIVE remove_new_edges(_, _, _, _)
remove_new_edges(m, u, ws, keep) ==
  IF ws = <<>> THEN m
  ELSE remove_new_edges(
         IF Head(ws) \in keep THEN m ELSE model_remove_edge(m, u, Head(ws)),
         u, Tail(ws), keep)

RECURSIVE add_saved_edges(_, _, _)
add_saved_edges(m, u, saved) ==
  IF saved = <<>> THEN m
  ELSE LET w == Head(saved)[1]
           n == model_add_edge(m, u, w)
       IN  add_saved_edges(set_edge_potential(n, {u, w}, Head(saved)[2]),
                           u, Tail(saved))

\* Lines 1141-1181: add v2 again, give its former neighbours back to it,
\* and restore the two cliques and their potentials.
combine_nodes_restore(it) ==
  LET k == "STEP_LOCAL_COMBINE_NODES"
      i == it.info[k]
      v2 == new_vertex(it)
      a == iter_add_vertex(it, i.orig_v2_args)
      m1 == remove_new_edges(a.model, i.v1, out_edges(a.model.jt, i.v1),
                             i.orig_v1_neighbor_set)
      m2 == add_saved_edges(m1, v2, i.orig_v2_neighbors)
      m3 == model_set_clique(m2, i.v1, i.orig_v1_args)
      m4 == model_set_clique(m3, v2, i.orig_v2_args)
  IN  [a EXCEPT
         !.model = [set_vertex_potential(m4, i.v1, i.orig_v1_potential)
                      EXCEPT !.vpot[v2] = i.orig_v2_potential],
         !.info[k] = [i EXCEPT !.v2 = v2, !.inside = TRUE,
                               !.e_i = i.e_i + 1]]

\* The loop of step_local_combine_nodes with inside true.  An edge of
\* edge_vec whose vertex is no longer in the tree is a dangling descriptor.
RECURSIVE combine_nodes_scan(_)
combine_nodes_scan(it) ==
  LET k == "STEP_LOCAL_COMBINE_NODES"
      i == it.info[k]
      t == it.model.jt
  IN  IF i.e_i > Len(i.edge_vec) THEN [it |-> it, done_step |-> TRUE]
      ELSE LET v2 == i.edge_vec[i.e_i][1]
               v1 == i.edge_vec[i.e_i][2]
           IN  IF ~({v1, v2} \subseteq vertices(t) /\ {v1, v2} \in t.edges)
                 THEN [it |-> [it EXCEPT !.fault = "dangling"],
                       done_step |-> FALSE]
                 ELSE
                   LET u == set_union(t.cliques[v1], t.cliques[v2])
                       j == [it EXCEPT !.info[k] =
                               [i EXCEPT !.v1 = v1, !.v2 = v2,
                                         !.clique_union = u]]
                   IN  IF Cardinality(u) <= it.max_clique_size
                         THEN [it |-> combine_nodes_change(j),
                               done_step |-> FALSE]
                         ELSE combine_nodes_scan(
                                [j EXCEPT !.info[k].e_i = i.e_i + 1])

\* step_local_combine_nodes().
step_local_combine_nodes(it) ==
  IF it.info["STEP_LOCAL_COMBINE_NODES"].inside
    THEN combine_nodes_scan(
           [it EXCEPT !.info["STEP_LOCAL_COMBINE_NODES"].e_i = 1])
    ELSE combine_nodes_scan(combine_nodes_restore(it))

\* local_edge_2_node_info_t(jt).
edge_2_node_info(t) ==
  [inside |-> TRUE, edge_vec |-> undir_edges(t), e_i |-> 1, v1 |-> 0,
   v2 |-> 0, c1_only |-> {}, c2_only |-> {}, s |-> {},
   c1_only_seq |-> <<>>, c1_i |-> 1, c2_only_seq |-> <<>>, c2_i |-> 1,
   c1_c2_potential |-> default_factor, orig_e_potential |-> default_factor,
   new_v |-> 0, new_v_args |-> {}]

\* Lines 1252-1272: replace the edge by a new vertex between v1 and v2.
edge_2_node_change(it) ==
  LET k == "STEP_LOCAL_EDGE_2_NODE"
      i == it.info[k]
      new_v == new_vertex(it)
      m1 == model_remove_edge(it.model, i.v1, i.v2)
      a == iter_add_vertex([it EXCEPT !.model = m1], i.new_v_args)
      m2 == set_vertex_potential(a.model, new_v,
               potential_marginal(i.c1_c2_potential, i.new_v_args))
      m3 == model_add_edge(m2, i.v1, new_v)
      m4 == set_edge_potential(m3, {i.v1, new_v},
               potential_marginal(i.c1_c2_potential,
                                  m3.jt.sep[{i.v1, new_v}]))
      m5 == model_add_edge(m4, i.v2, new_v)
      m6 == set_edge_potential(m5, {i.v2, new_v},
               potential_marginal(i.c1_c2_potential,
                                  m5.jt.sep[{i.v2, new_v}]))
  IN  [a EXCEPT
         !.model = m6,
         !.info[k] = [i EXCEPT
                        !.orig_e_potential = it.model.epot[{i.v1, i.v2}],
                        !.new_v = new_v, !.inside = FALSE]]

\* Lines 1278-1288: remove the new vertex, add the edge again and move to
\* the next subset of c2_only.
edge_2_node_restore(it) ==
  LET k == "STEP_LOCAL_EDGE_2_NODE"
      i == it.info[k]
      m1 == model_add_edge(model_remove_vertex(it.model, i.new_v),
                           i.v1, i.v2)
  IN  [it EXCEPT
         !.model = set_edge_potential(m1, {i.v1, i.v2}, i.orig_e_potential),
         !.info[k] = [i EXCEPT !.inside = TRUE, !.c2_i = i.c2_i + 1]]

\* The loops of step_local_edge_2_node with inside true, from the place
\* named by pc: the head of the do-loop ("edge"), the loops over the
\* subsets, or the condition of the do-loop ("tail").
RECURSIVE edge_2_node_scan(_, _)
edge_2_node_scan(it, pc) ==
  LET k == "STEP_LOCAL_EDGE_2_NODE"
      i == it.info[k]
      t == it.model.jt
  IN  CASE pc = "edge" ->
             LET v1 == i.edge_vec[i.e_i][1]
                 v2 == i.edge_vec[i.e_i][2]
                 sep == t.sep[{v1, v2}]
                 c1_only == difference(t.cliques[v1], sep)
                 c2_only == difference(t.cliques[v2], sep)
             IN  edge_2_node_scan(
                   [it EXCEPT !.info[k] =
                      [i EXCEPT
                         !.e_i = i.e_i + 1, !.v1 = v1, !.v2 = v2,
                         !.c1_c2_potential =
                            data_marginal(set_union(t.cliques[v1],
                                                    t.cliques[v2])),
                         !.s = sep, !.c1_only = c1_only,
                         !.c2_only = c2_only,
                         !.c1_only_seq =
                            subset_iterator(c1_only, 1,
                               size_minus(Cardinality(c1_only), 1)),
                         !.c1_i = 1]], "c1")
        [] pc = "c1" ->
             IF i.c1_i > Len(i.c1_only_seq) THEN edge_2_node_scan(it, "tail")
             ELSE edge_2_node_scan(
                    [it EXCEPT !.info[k] =
                       [i EXCEPT
                          !.c2_only_seq =
                             subset_iterator(i.c2_only, 1,
                                             Cardinality(i.c2_only)),
                          !.c2_i = 1]], "c2")
        [] pc = "c2" ->
             IF i.c2_i > Len(i.c2_only_seq)
               THEN edge_2_node_scan(
                      [it EXCEPT !.info[k].c1_i = i.c1_i + 1], "c1")
               ELSE LET args == set_union(
                                  set_union(i.s, i.c1_only_seq[i.c1_i]),
                                  i.c2_only_seq[i.c2_i])
                        j == [it EXCEPT !.info[k].new_v_args = args]
                    IN  IF Cardinality(args) <= it.max_clique_size
                          THEN [it |-> edge_2_node_change(j),
                                done_step |-> FALSE]
                          ELSE edge_2_node_scan(
                                 [j EXCEPT !.info[k].c2_i = i.c2_i + 1],
                                 "c2")
        [] pc = "tail" ->
             IF i.e_i <= Len(i.edge_vec) THEN edge_2_node_scan(it, "edge")
             ELSE [it |-> it, done_step |-> TRUE]

\* step_local_edge_2_node().
step_local_edge_2_node(it) ==
  LET k == "STEP_LOCAL_EDGE_2_NODE"
      i == it.info[k]
  IN  IF i.inside
        THEN IF i.edge_vec = <<>> THEN [it |-> it, done_step |-> TRUE]
             ELSE edge_2_node_scan([it EXCEPT !.info[k].e_i = 1], "edge")
        ELSE edge_2_node_scan(edge_2_node_restore(it), "c2")

\* long_move_leaf_info_t().
move_leaf_info ==
  [inside |-> TRUE, vertex_vec |-> <<>>, v_i |-> 1, c1 |-> {},
   vertex2_vec |-> <<>>, v2_i |-> 1, v2 |-> 0, c2 |-> {}, c2_seq |-> <<>>,
   c2_i |-> 1, new_v |-> 0, orig_v1_potential |-> default_factor,
   orig_e_potential |-> default_factor, orig_v1_neighbor |-> 0]

\* Lines 1344-1363: v1 is a leaf with the one edge e; save it and remove it.
move_leaf_remove(it, v1, w) ==
  LET k == "STEP_LONG_MOVE_LEAF"
      i == it.info[k]
      m == it.model
      removed == model_remove_vertex(m, v1)
  IN  [it EXCEPT
         !.model = removed,
         !.info[k] =
            [i EXCEPT
               !.c1 = difference(m.jt.cliques[v1], m.jt.sep[{v1, w}]),
               !.orig_v1_potential = m.vpot[v1],
               !.orig_e_potential = m.epot[{v1, w}],
               !.orig_v1_neighbor = w,
               !.vertex2_vec = SetToSeq(vertices(removed.jt) \ {w}),
               !.v2_i = 1]]

\* Lines 1381-1398: make the new leaf c1 U s_new and connect it to v2.
move_leaf_change(it) ==
  LET k == "STEP_LONG_MOVE_LEAF"
      i == it.info[k]
      s_new == i.c2_seq[i.c2_i]
      new_c == set_union(s_new, i.c1)
      new_v == new_vertex(it)
      a == iter_add_vertex(it, new_c)
      m1 == set_vertex_potential(a.model, new_v, data_marginal(new_c))
      m2 == model_add_edge(m1, i.v2, new_v)
  IN  [a EXCEPT
         !.model = set_edge_potential(m2, {i.v2, new_v},
                      potential_marginal(m1.vpot[new_v], s_new)),
         !.info[k] = [i EXCEPT !.new_v = new_v, !.inside = FALSE]]

\* Lines 1413-1420: add v1 back in with its potential and its edge.
move_leaf_restore(it) ==
  LET i == it.info["STEP_LONG_MOVE_LEAF"]
      v1 == new_vertex(it)
      a == iter_add_vertex(it, i.orig_v1_potential.args)
      m1 == set_vertex_potential(a.model, v1, i.orig_v1_potential)
      m2 == model_add_edge(m1, v1, i.orig_v1_neighbor)
  IN  [a EXCEPT !.model =
         set_edge_potential(m2, {v1, i.orig_v1_neighbor}, i.orig_e_potential)]

\* The loops of step_long_move_leaf with inside true, from the place named
\* by pc.  The leaf test reads the first out-edge of v1 without looking
\* whether there is one: for a vertex without edges the behaviour is
\* undefined, and ub names the outcome (the program stops, or the garbage
\* read makes the vertex look like an inner vertex).
RECURSIVE move_leaf_scan(_, _, _)
move_leaf_scan(it, pc, ub) ==
  LET k == "STEP_LONG_MOVE_LEAF"
      i == it.info[k]
      t == it.model.jt
  IN  CASE pc = "vertex" ->
             LET v1 == i.vertex_vec[i.v_i]
                 j == [it EXCEPT !.info[k].v_i = i.v_i + 1]
             IN  IF v1 \notin vertices(t)
                   THEN [it |-> [j EXCEPT !.fault = "dangling"],
                         done_step |-> FALSE]
                 ELSE IF out_edges(t, v1) = <<>>
                   THEN IF ub = "stop"
                          THEN [it |-> [j EXCEPT !.fault = "end_dereferenced"],
                                done_step |-> FALSE]
                          ELSE move_leaf_scan(j, "tail", ub)
                 ELSE IF Len(out_edges(t, v1)) > 1
                   THEN move_leaf_scan(j, "tail", ub)
                 ELSE move_leaf_scan(
                        move_leaf_remove(j, v1, out_edges(t, v1)[1]),
                        "v2", ub)
        [] pc = "v2" ->
             IF i.v2_i > Len(i.vertex2_vec)
               THEN move_leaf_scan(move_leaf_restore(it), "tail", ub)
               ELSE LET v2 == i.vertex2_vec[i.v2_i]
                        c2 == t.cliques[v2]
                        hi == Min({size_minus(Cardinality(c2), 1),
                                   size_minus(it.max_clique_size,
                                              Cardinality(i.c1))})
                    IN  move_leaf_scan(
                          [it EXCEPT !.info[k] =
                             [i EXCEPT !.v2 = v2, !.c2 = c2,
                                       !.c2_seq = subset_iterator(c2, 1, hi),
                                       !.c2_i = 1]], "c2", ub)
        [] pc = "c2" ->
             IF i.c2_i > Len(i.c2_seq)
               THEN move_leaf_scan(
                      [it EXCEPT !.info[k].v2_i = i.v2_i + 1], "v2", ub)
               ELSE [it |-> move_leaf_change(it), done_step |-> FALSE]
        [] pc = "tail" ->
             IF i.v_i <= Len(i.vertex_vec)
               THEN move_leaf_scan(it, "vertex", ub)
               ELSE [it |-> it, done_step |-> TRUE]

\* step_long_move_leaf().
step_long_move_leaf(it, ub) ==
  LET k == "STEP_LONG_MOVE_LEAF"
      i == it.info[k]
  IN  IF i.inside
        THEN LET vertex_vec == i.vertex_vec \o SetToSeq(vertices(it.model.jt))
             IN  IF vertex_vec = <<>>
                   THEN [it |-> [it EXCEPT !.info[k].vertex_vec = vertex_vec],
                         done_step |-> TRUE]
                   ELSE move_leaf_scan(
                          [it EXCEPT !.info[k] =
                             [i EXCEPT !.vertex_vec = vertex_vec,
                                       !.v_i = 1]], "vertex", ub)
        ELSE move_leaf_scan(
               [it EXCEPT
                  !.model = model_remove_vertex(it.model, i.new_v),
                  !.info[k] = [i EXCEPT !.inside = TRUE,
                                         !.c2_i = i.c2_i + 1]], "c2", ub)

\* long_swap_var_info_t().
swap_var_info ==
  [inside |-> TRUE, var_pair_seq |-> <<>>, p_i |-> 1, x1 |-> 0, x2 |-> 0,
   vertex_fctr_vec |-> <<>>, edge_fctr_vec |-> <<>>]

\* model.arguments().
arguments(m) == UNION {m.jt.cliques[u] : u \in vertices(m.jt)}

\* Lines 1459-1482: in every clique that holds exactly one of x1 and x2,
\* put the other in its place; the former potential is appended to saved.
RECURSIVE swap_cliques(_, _, _, _, _, _)
swap_cliques(m, saved, changed, vs, x1, x2) ==
  IF vs = <<>> THEN [m |-> m, saved |-> saved, changed |-> changed]
  ELSE LET u == Head(vs)
           c == m.jt.cliques[u]
           swapped == IF x1 \in c THEN (c \ {x1}) \cup {x2}
                                  ELSE (c \ {x2}) \cup {x1}
       IN  IF (x1 \in c) # (x2 \in c)
             THEN swap_cliques(
                    model_set_clique(
                      set_vertex_potential(m, u, data_marginal(swapped)),
                      u, swapped),
                    Append(saved, <<u, m.vpot[u]>>), TRUE, Tail(vs), x1, x2)
             ELSE swap_cliques(m, saved, changed, Tail(vs), x1, x2)

\* Lines 1488-1507: for every separator that now holds exactly one of x1
\* and x2, the potential is recomputed over the separator with the other
\* variable in its place; the former potential is appended to saved.
RECURSIVE swap_separators(_, _, _, _, _)
swap_separators(m, saved, es, x1, x2) ==
  IF es = <<>> THEN [m |-> m, saved |-> saved]
  ELSE LET e2 == {Head(es)[1], Head(es)[2]}
           sp == m.jt.sep[e2]
           swapped == IF x1 \in sp THEN (sp \ {x1}) \cup {x2}
                                   ELSE (sp \ {x2}) \cup {x1}
       IN  IF (x1 \in sp) # (x2 \in sp)
             THEN swap_separators(
                    set_edge_potential(m, e2, data_marginal(swapped)),
                    Append(saved, <<e2, m.epot[e2]>>), Tail(es), x1, x2)
             ELSE swap_separators(m, saved, Tail(es), x1, x2)

\* Lines 1516-1533: put every saved clique potential back, with its
\* arguments as the clique, then every saved separator potential.
RECURSIVE restore_cliques(_, _)
restore_cliques(m, saved) ==
  IF saved = <<>> THEN m
  ELSE LET u == Head(saved)[1]
           f == Head(saved)[2]
       IN  restore_cliques(
             model_set_clique(set_vertex_potential(m, u, f), u, f.args),
             Tail(saved))

swap_var_restore(it) ==
  LET k == "STEP_LONG_SWAP_VAR"
      i == it.info[k]
  IN  [it EXCEPT
         !.model = restore_potentials(
                     restore_cliques(it.model, i.vertex_fctr_vec),
                     i.edge_fctr_vec),
         !.info[k] = [i EXCEPT !.inside = TRUE, !.p_i = i.p_i + 1]]

\* The loop of step_long_swap_var with inside true.
RECURSIVE swap_var_scan(_)
swap_var_scan(it) ==
  LET k == "STEP_LONG_SWAP_VAR"
      i == it.info[k]
  IN  IF i.p_i > Len(i.var_pair_seq) THEN [it |-> it, done_step |-> TRUE]
      ELSE LET var_pair == i.var_pair_seq[i.p_i]
               x1 == Min(var_pair)
               x2 == Min(var_pair \ {x1})
               c == swap_cliques(it.model, i.vertex_fctr_vec, FALSE,
                                 SetToSeq(vertices(it.model.jt)), x1, x2)
               r == swap_separators(c.m, i.edge_fctr_vec,
                                    undir_edges(c.m.jt), x1, x2)
           IN  IF ~c.changed
                 THEN swap_var_scan(
                        [it EXCEPT !.info[k] =
                           [i EXCEPT !.x1 = x1, !.x2 = x2,
                                     !.p_i = i.p_i + 1]])
                 ELSE [it |-> [it EXCEPT
                                 !.model = r.m,
                                 !.info[k] =
                                    [i EXCEPT !.x1 = x1, !.x2 = x2,
                                              !.vertex_fctr_vec = c.saved,
                                              !.edge_fctr_vec = r.saved,
                                              !.inside = FALSE]],
                       done_step |-> FALSE]

\* step_long_swap_var().
step_long_swap_var(it) ==
  LET k == "STEP_LONG_SWAP_VAR"
      i == it.info[k]
  IN  IF i.inside
        THEN swap_var_scan(
               [it EXCEPT !.info[k] =
                  [i EXCEPT !.var_pair_seq =
                               subset_iterator(arguments(it.model), 2, 2),
                            !.p_i = 1]])
        ELSE swap_var_scan(swap_var_restore(it))

\* steps[which_step]; which_step counts from zero.
current_step_type(it) == it.steps[it.which_step + 1]

\* clean_up_step(): the information of the current step type is released.
clean_up_step(it) ==
  IF current_step_type(it) \in InfoTypes
    THEN [it EXCEPT !.info[current_step_type(it)] = NULL]
    ELSE it

\* The switch of init_step(): the information of the current step type is
\* allocated; a step type that is not implemented allocates nothing.
new_info(it) ==
  LET k == current_step_type(it)
  IN  CASE k = "STEP_LOCAL_PUSH_BACK_SUBTREE" -> push_back_subtree_info
        [] k = "STEP_LOCAL_COMBINE_NODES" -> combine_nodes_info(it.model.jt)
        [] k = "STEP_LOCAL_EDGE_2_NODE" -> edge_2_node_info(it.model.jt)
        [] k = "STEP_LONG_SWAP_VAR" -> swap_var_info
        [] k = "STEP_LONG_MOVE_LEAF" -> move_leaf_info

\* The switch of operator++: the step function of the current step type.
\* A step type that is not implemented has no candidate.
step(it, ub) ==
  LET k == current_step_type(it)
  IN  CASE k = "STEP_LOCAL_PUSH_BACK_SUBTREE" ->
             step_local_push_back_subtree(it)
        [] k = "STEP_LOCAL_COMBINE_NODES" -> step_local_combine_nodes(it)
        [] k = "STEP_LOCAL_EDGE_2_NODE" -> step_local_edge_2_node(it)
        [] k = "STEP_LONG_SWAP_VAR" -> step_long_swap_var(it)
        [] k = "STEP_LONG_MOVE_LEAF" -> step_long_move_leaf(it, ub)
        [] OTHER -> [it |-> it, done_step |-> TRUE]

\* operator++() and init_step().  Reading steps[which_step] past the end of
\* steps, reading model_types[which_model] of an iterator without model
\* types, and calling a step function without its information are
\* undefined: ub names the outcome (the program stops, or the garbage read
\* selects no case of the switch).  at_end is history: the model that each
\* exhausted step type left behind.
RECURSIVE operator_pp(_, _)
RECURSIVE init_step(_, _)
operator_pp(it, ub) ==
  IF it.done THEN it
  ELSE IF Len(it.steps) > 0
    THEN IF it.which_step >= Len(it.steps)
           THEN IF ub = "stop" THEN [it EXCEPT !.fault = "out_of_range"]
                               ELSE it
         ELSE IF current_step_type(it) \in InfoTypes
                 /\ it.info[current_step_type(it)] = NULL
           THEN [it EXCEPT !.fault = "null_info"]
         ELSE LET r == step(it, ub)
              IN  IF r.it.fault # "none" THEN r.it
                  ELSE IF r.done_step
                    THEN init_step(
                           [clean_up_step(r.it) EXCEPT
                              !.which_step = it.which_step + 1,
                              !.at_end = Append(it.at_end, r.it.model)],
                           ub)
                  ELSE r.it
    ELSE IF ub = "stop" THEN [it EXCEPT !.fault = "out_of_range"] ELSE it

init_step(it, ub) ==
  IF it.which_step >= Len(it.steps)
    THEN [it EXCEPT !.model = empty_model, !.done = TRUE]
    ELSE LET j == IF current_step_type(it) \in InfoTypes
                    THEN [it EXCEPT !.info[current_step_type(it)] =
                                       new_info(it)]
                    ELSE it
             r == operator_pp(j, ub)
         IN  IF r.done THEN [r EXCEPT !.model = empty_model] ELSE r

\* decomposable_iterator(model, data, steps, param_method, max_clique_size):
\* the iterator at the first candidate.  reuse tells how the build hands
\* out vertex descriptors; initial is history.
decomposable_iterator(model, steps, max_clique_size, reuse, ub) ==
  init_step(
    [model |-> model, max_clique_size |-> max_clique_size, done |-> FALSE,
     steps |-> steps, which_step |-> 0, info |-> no_info,
     next_vertex |-> Cardinality(vertices(model.jt)) + 1, reuse |-> reuse,
     fault |-> "none", yielded |-> 0, initial |-> model, at_end |-> <<>>,
     cands |-> <<>>, assigned |-> FALSE],
    ub)

\* decomposable_iterator(const decomposable_iterator& it).
copy_construct(it) == it

\* copy_info_pointers(it): only the information that the source holds is
\* copied.
copy_info(self, it, k) ==
  IF it.info[k] # NULL THEN it.info[k] ELSE self.info[k]

copy_info_pointers(self, it) ==
  [STEP_LOCAL_PUSH_BACK_SUBTREE |->
     copy_info(self, it, "STEP_LOCAL_PUSH_BACK_SUBTREE"),
   STEP_LOCAL_COMBINE_NODES |->
     copy_info(self, it, "STEP_LOCAL_COMBINE_NODES"),
   STEP_LOCAL_EDGE_2_NODE |-> copy_info(self, it, "STEP_LOCAL_EDGE_2_NODE"),
   STEP_LONG_SWAP_VAR |-> copy_info(self, it, "STEP_LONG_SWAP_VAR"),
   STEP_LONG_MOVE_LEAF |-> copy_info(self, it, "STEP_LONG_MOVE_LEAF")]

\* operator=(it).  The descriptor supply and the history go with the model.
operator_assign(self, it) ==
  [self EXCEPT !.model = it.model,
               !.max_clique_size = it.max_clique_size,
               !.steps = it.steps,
               !.which_step = it.which_step,
               !.info = copy_info_pointers(self, it),
               !.next_vertex = it.next_vertex,
               !.reuse = it.reuse,
               !.yielded = it.yielded,
               !.initial = it.initial,
               !.at_end = it.at_end,
               !.cands = it.cands]

\* operator==(it).
operator_eq(self, it) == self.done = it.done

\* The longest list of step types and the largest max_clique_size.
MaxStepTypes == 2
MaxCliqueSize == 4

\* The junction tree with the given cliques (vertex n has the n-th clique)
\* and edges, and the decomposable model over it.
tree_of(cliques, edges) ==
  LET cl == [u \in 1..Len(cliques) |-> cliques[u]]
  IN  [cliques |-> cl, edges |-> edges, sep |-> separators(cl, edges)]

model_of(t) ==
  [jt |-> t,
   vpot |-> [u \in vertices(t) |-> [args |-> t.cliques[u], by |-> "model"]],
   epot |-> [x \in t.edges |-> [args |-> t.sep[x], by |-> "model"]]]

\* The initial models: no clique, one clique, two cliques, two chains and
\* two stars.
InitialModels ==
  {model_of(empty_tree),
   model_of(tree_of(<<{1, 2}>>, {})),
   model_of(tree_of(<<{1, 2}, {2, 3}>>, {{1, 2}})),
   model_of(tree_of(<<{1, 2}, {2, 3}, {3, 4}>>, {{1, 2}, {2, 3}})),
   model_of(tree_of(<<{1, 2}, {2, 3, 4}, {3, 4, 5}>>, {{1, 2}, {2, 3}})),
   model_of(tree_of(<<{1, 2, 3}, {1, 4}, {2, 5}>>, {{1, 2}, {1, 3}})),
   model_of(tree_of(<<{1, 2}, {1, 3}, {2, 4}, {2, 5}>>,
                    {{1, 2}, {1, 3}, {1, 4}}))}

StepLists == UNION {[1..n -> StepTypes] : n \in 0..MaxStepTypes}

CliqueSizes == 2..MaxCliqueSize

UndefinedOutcomes == {"stop", "garbage"}

\* History: the candidates yielded so far are counted, and a candidate of
\* an edge-to-node step is recorded with the two cliques of its edge and
\* the new clique.
recorded(it) ==
  IF it.done \/ it.fault # "none" THEN it
  ELSE [it EXCEPT
          !.yielded = it.yielded + 1,
          !.cands =
             IF current_step_type(it) = "STEP_LOCAL_EDGE_2_NODE"
               THEN LET i == it.info["STEP_LOCAL_EDGE_2_NODE"]
                    IN  Append(it.cands,
                               [step_no |-> it.which_step,
                                ends |-> {i.v1, i.v2},
                                c1 |-> it.model.jt.cliques[i.v1],
                                c2 |-> it.model.jt.cliques[i.v2],
                                new_clique |-> it.model.jt.cliques[i.new_v]])
               ELSE it.cands]

restOfIterator == <<jt, lastOp, engineVars, factorVars, tp, lr>>

\* ++iter.
Increment(ub) ==
  /\ iter.fault = "none"
  /\ iter' = IF iter.done THEN operator_pp(iter, ub)
             ELSE recorded(operator_pp(iter, ub))
  /\ UNCHANGED <<iter_a, restOfIterator>>

\* decomposable_iterator iter_a(iter).
CopyConstruct ==
  /\ iter.fault = "none"
  /\ iter_a = end_iterator
  /\ iter_a' = copy_construct(iter)
  /\ UNCHANGED <<iter, restOfIterator>>

\* iter_a = iter.
AssignIterator ==
  /\ iter.fault = "none"
  /\ iter_a' = [operator_assign(iter_a, iter) EXCEPT !.assigned = TRUE]
  /\ UNCHANGED <<iter, restOfIterator>>

IteratorRest ==
  /\ jt = empty_tree
  /\ lastOp = NoEdit
  /\ EngineUnbuilt
  /\ fx = constant_table_factor(Zero)
  /\ fy = constant_table_factor(Zero)
  /\ call = NoCall
  /\ ProcessIdle
  /\ RegressionIdle

InitIterator ==
  /\ IteratorRest
  /\ \E model \in InitialModels, steps \in StepLists, size \in CliqueSizes,
        reuse \in BOOLEAN, ub \in UndefinedOutcomes :
       iter = recorded(decomposable_iterator(model, steps, size, reuse, ub))
  /\ iter_a = end_iterator

IteratorNext == \E ub \in UndefinedOutcomes : Increment(ub)

SpecIterator == InitIterator /\ [][IteratorNext]_vars

\* A tree without the names of its vertices: the cliques, and the edges as
\* pairs of cliques with their separators.
tree_shape(t) ==
  [vertex_count |-> Cardinality(vertices(t)),
   cliques |-> {t.cliques[u] : u \in vertices(t)},
   edges |-> {<<{t.cliques[u] : u \in x}, t.sep[x]>> : x \in t.edges}]

\* Two models with the same cliques, the same adjacency and the same
\* clique and separator potentials.
same_model(m, n) ==
  /\ tree_shape(m.jt) = tree_shape(n.jt)
  /\ {<<m.jt.cliques[u], m.vpot[u]>> : u \in vertices(m.jt)}
       = {<<n.jt.cliques[u], n.vpot[u]>> : u \in vertices(n.jt)}
  /\ {<<{m.jt.cliques[u] : u \in x}, m.epot[x]>> : x \in m.jt.edges}
       = {<<{n.jt.cliques[u] : u \in x}, n.epot[x]>> : x \in n.jt.edges}

\* The model that a step type started from: the initial model, or the
\* model that the step type before it left behind.
start_model(it, n) == IF n = 0 THEN it.initial ELSE it.at_end[n]

\* The tree m is one step of the given type away from the tree t.
one_step(t, m, k) ==
  LET V == vertices(t)
      fresh == Cardinality(V) + 1
      Vars == UNION {t.cliques[u] : u \in V}
  IN  CASE k = "STEP_LOCAL_PUSH_BACK_SUBTREE" ->
             \E u \in V : \E d2 \in t.cliques[u] : \E d \in Vars \ t.cliques[u] :
               tree_shape(m)
                 = tree_shape(set_clique(t, u, (t.cliques[u] \ {d2}) \cup {d}))
        [] k = "STEP_LOCAL_COMBINE_NODES" ->
             \E x \in t.edges : \E u \in x : \E w \in x \ {u} :
               tree_shape(m) = tree_shape(merge(t, u, w))
        [] k = "STEP_LOCAL_EDGE_2_NODE" ->
             \E x \in t.edges : \E u \in x : \E w \in x \ {u} :
               \E c \in SUBSET (t.cliques[u] \cup t.cliques[w]) :
                 tree_shape(m)
                   = tree_shape(
                       add_edge(add_edge(add_vertex(remove_edge(t, u, w),
                                                    fresh, c),
                                         u, fresh), w, fresh))
        [] k = "STEP_LONG_MOVE_LEAF" ->
             \E u \in V : \E w \in V \ {u} : \E c \in SUBSET Vars :
               /\ Cardinality(neighbors(t, u)) = 1
               /\ tree_shape(m)
                    = tree_shape(add_edge(add_vertex(remove_vertex(t, u),
                                                     u, c), u, w))
        [] k = "STEP_LONG_SWAP_VAR" ->
             \E x1 \in Vars : \E x2 \in Vars \ {x1} :
               LET swap_in(c) ==
                     {IF x = x1 THEN x2 ELSE IF x = x2 THEN x1 ELSE x :
                        x \in c}
                   cl == [u \in V |-> swap_in(t.cliques[u])]
               IN  tree_shape(m)
                     = tree_shape([cliques |-> cl, edges |-> t.edges,
                                   sep |-> separators(cl, t.edges)])
        [] OTHER -> FALSE

\* The iterator holds a candidate.
at_candidate(it) == ~it.done /\ it.fault = "none"

\* Every step type exhausted so far left the initial model behind, and the
\* candidate at hand is one step away from the initial model.
restores_initial(it) ==
  /\ \A n \in 1..Len(it.at_end) : same_model(it.at_end[n], it.initial)
  /\ at_candidate(it) =>
       one_step(it.initial.jt, it.model.jt, current_step_type(it))

\* C24: for every implemented step type, the model is restored to the
\* initial model (same cliques, same adjacency, same potentials) before the
\* iterator moves past a candidate: every candidate is one step away from
\* the initial model, and every exhausted step type leaves the initial
\* model behind.
C24_AsStated == restores_initial(iter)

\* The second push-back-subtree candidate on the chain
\* {1,2} - {2,3,4} - {3,4,5}: the middle clique is {1,2}.  It was built from
\* the clique {1,2,4} of the first candidate, so two variables of the
\* initial clique are gone, and the restore puts {1,2,4} back.
C24_Witness ==
  /\ at_candidate(iter)
  /\ current_step_type(iter) = "STEP_LOCAL_PUSH_BACK_SUBTREE"
  /\ iter.initial.jt.cliques = <<{1, 2}, {2, 3, 4}, {3, 4, 5}>>
  /\ iter.model.jt.cliques[2] = {1, 2}
  /\ iter.info["STEP_LOCAL_PUSH_BACK_SUBTREE"].orig_v2_args = {1, 2, 4}

\* The restore of the four other step types: without a push-back-subtree
\* step in the list, C24 holds.
RestoresWithoutPushBack ==
  (\A n \in 1..Len(iter.steps) :
      iter.steps[n] # "STEP_LOCAL_PUSH_BACK_SUBTREE")
    => restores_initial(iter)

\* A junction tree: one component with the running intersection property.
is_junction_tree(t) ==
  /\ \A u, w \in vertices(t) : connected(t, u, w)
  /\ running_intersection(t)

\* C25: when the junction tree of the initial model has the running
\* intersection property, so has the tree of every model that the iterator
\* yields through push-back-subtree, combine-nodes, edge-to-node, move-leaf
\* and swap-variable steps.
C25_RunningIntersection ==
  (is_junction_tree(iter.initial.jt) /\ at_candidate(iter))
    => is_junction_tree(iter.model.jt)

\* A push-back-subtree candidate on the star with the centre {1,2} and the
\* leaves {1,3}, {2,4}, {2,5}: a variable of a leaf has replaced in the
\* centre the variable 1, which is in one separator only; the variable 2 is
\* in two separators and stays.
C25_Witness ==
  /\ at_candidate(iter)
  /\ current_step_type(iter) = "STEP_LOCAL_PUSH_BACK_SUBTREE"
  /\ iter.initial.jt.cliques = <<{1, 2}, {1, 3}, {2, 4}, {2, 5}>>
  /\ 1 \notin iter.model.jt.cliques[1]
  /\ 2 \in iter.model.jt.cliques[1]
  /\ iter.yielded >= 2

\* An increment changes the iterator exactly when the iterator is not done
\* and the program has not stopped: ENABLED <<IteratorNext>>_vars.
IncrementEnabled == ~iter.done /\ iter.fault = "none"

\* IncrementEnabled is the enabling condition of the increment.
EnabledAsComputed ==
  IncrementEnabled =
    (/\ iter.fault = "none"
     /\ \E ub \in UndefinedOutcomes :
          iter # (IF iter.done THEN operator_pp(iter, ub)
                  ELSE recorded(operator_pp(iter, ub))))

\* The caller increments the iterator until it compares equal to the end
\* iterator: WF_vars(IteratorNext), with its enabling condition written
\* out as IncrementEnabled.
SpecIteratorFair ==
  /\ SpecIterator
  /\ ([]<>(~IncrementEnabled) \/ []<><<IteratorNext>>_vars)

\* C26: for every initial model and every list of step types, repeated
\* increments reach the done state; from then on the iterator compares
\* equal to the end iterator and an increment changes nothing.  Every
\* increment of an iterator that is not done yields one more candidate or
\* reaches done, so the done state is reached exactly if no state short of
\* done is one where the increment cannot be made.
C26_AsStated ==
  /\ iter.done \/ IncrementEnabled
  /\ iter.done =>
       /\ operator_eq(iter, end_iterator)
       /\ \A ub \in UndefinedOutcomes : operator_pp(iter, ub) = iter

\* The same as a property of behaviours: under fairness of the increment
\* the iterator is eventually done for good.
TerminatesAsStated ==
  /\ <>[](iter.done /\ operator_eq(iter, end_iterator))
  /\ [][iter.done => iter' = iter]_vars

\* An increment of an iterator that is not done yields one more candidate
\* or reaches done or stops.
IncrementAdvances ==
  [][IncrementEnabled =>
       \/ iter'.done
       \/ iter'.fault # "none"
       \/ iter'.yielded = iter.yielded + 1]_vars

\* The iterator over a model of one clique with a move-leaf step: the leaf
\* test has read the first out-edge of a vertex that has none, and the
\* program has stopped before the done state.
C26_Witness ==
  /\ iter.fault = "end_dereferenced"
  /\ ~iter.done
  /\ current_step_type(iter) = "STEP_LONG_MOVE_LEAF"
  /\ Cardinality(vertices(iter.initial.jt)) = 1

\* Where the program does not stop on undefined behaviour, the iterator
\* reaches the done state and stays there.
TerminatesUnlessStopped ==
  /\ <>[](iter.fault # "none"
            \/ (iter.done /\ operator_eq(iter, end_iterator)))
  /\ [][iter.done => iter' = iter]_vars

\* The undefined read arises only in a move-leaf step over a tree with a
\* vertex that has no edge.
StopsOnlyOnIsolatedVertex ==
  iter.fault # "none" =>
    /\ iter.fault = "end_dereferenced"
    /\ current_step_type(iter) = "STEP_LONG_MOVE_LEAF"
    /\ \E u \in vertices(iter.model.jt) : neighbors(iter.model.jt, u) = {}

\* Every clique of the tree t has at most n variables.
cliques_within(t, n) ==
  \A u \in vertices(t) : Cardinality(t.cliques[u]) <= n

\* C27: if every clique of the initial model has at most max_clique_size
\* variables, every clique of every model the iterator yields has at most
\* max_clique_size variables.
C27_MaxCliqueSize ==
  (cliques_within(iter.initial.jt, iter.max_clique_size) /\ at_candidate(iter))
    => cliques_within(iter.model.jt, iter.max_clique_size)

\* A yielded candidate of a step that grows a clique (combine-nodes,
\* edge-to-node or move-leaf) with a clique of exactly max_clique_size
\* variables that the initial model, within the bound, does not have.
C27_Witness ==
  /\ at_candidate(iter)
  /\ cliques_within(iter.initial.jt, iter.max_clique_size)
  /\ current_step_type(iter) \in {"STEP_LOCAL_COMBINE_NODES",
                                   "STEP_LOCAL_EDGE_2_NODE",
                                   "STEP_LONG_MOVE_LEAF"}
  /\ \E u \in vertices(iter.model.jt) :
       /\ Cardinality(iter.model.jt.cliques[u]) = iter.max_clique_size
       /\ \A w \in vertices(iter.initial.jt) :
            iter.initial.jt.cliques[w] # iter.model.jt.cliques[u]

\* The candidates of an edge-to-node step over the model m: for every edge
\* {u, w} with separator s, every pair of a non-empty subset a of the
\* clique of u minus s and a non-empty subset b of the clique of w minus s
\* whose union with s has at most n variables gives the new clique
\* s + a + b between u and w.
edge_2_node_expected(m, n) ==
  UNION {LET u == CHOOSE x \in e : TRUE
             w == CHOOSE x \in e : x # u
             s == m.jt.cliques[u] \cap m.jt.cliques[w]
         IN  {[ends |-> e, new_clique |-> s \cup a \cup b] :
                <<a, b>> \in
                  {p \in (SUBSET (m.jt.cliques[u] \ s) \ {{}})
                           \X (SUBSET (m.jt.cliques[w] \ s) \ {{}}) :
                     Cardinality(s \cup p[1] \cup p[2]) <= n}}
         : e \in m.jt.edges}

\* The step of index n (from 0) is an edge-to-node step that the iterator
\* it has finished.
edge_2_node_finished(it, n) ==
  /\ it.fault = "none"
  /\ n < Len(it.steps)
  /\ it.steps[n + 1] = "STEP_LOCAL_EDGE_2_NODE"
  /\ n < Len(it.at_end)
  /\ (it.done \/ it.which_step > n)

\* How many candidates of the step of index n put the new clique x.new_clique
\* between the ends x.ends.
times_yielded(it, n, x) ==
  Cardinality({k \in 1..Len(it.cands) :
                 /\ it.cands[k].step_no = n
                 /\ it.cands[k].ends = x.ends
                 /\ it.cands[k].new_clique = x.new_clique})

\* C28: for each edge between cliques c1 and c2 with separator s, the
\* edge-to-node step yields exactly one candidate for every pair of a
\* non-empty subset c1s of c1 minus s and a non-empty subset c2s of c2
\* minus s whose union with s has at most max_clique_size variables, with
\* the new clique s + c1s + c2s between c1 and c2.
C28_AsStated ==
  \A n \in 0..(MaxStepTypes - 1) :
    edge_2_node_finished(iter, n) =>
      \A x \in edge_2_node_expected(start_model(iter, n),
                                    iter.max_clique_size) :
        times_yielded(iter, n, x) = 1

\* A finished edge-to-node step over the tree {1,2} - {2,3} with
\* max_clique_size 3: the pair ({1}, {3}) fits, and no candidate was
\* yielded.
C28_Witness ==
  /\ edge_2_node_finished(iter, 0)
  /\ iter.max_clique_size = 3
  /\ tree_shape(iter.initial.jt) = tree_shape(tree_of(<<{1, 2}, {2, 3}>>,
                                                      {{1, 2}}))
  /\ iter.cands = <<>>

\* What the step does yield: every candidate is one of the expected ones
\* and is yielded once, and an expected candidate that is not yielded has
\* a new clique that contains the whole clique at one end of the edge.
EdgeToNodeStrictSubsets ==
  \A n \in 0..(MaxStepTypes - 1) :
    edge_2_node_finished(iter, n) =>
      LET m == start_model(iter, n)
          pairs == edge_2_node_expected(m, iter.max_clique_size)
      IN  /\ \A k \in 1..Len(iter.cands) :
               iter.cands[k].step_no = n =>
                 \E x \in pairs :
                   /\ x.ends = iter.cands[k].ends
                   /\ x.new_clique = iter.cands[k].new_clique
                   /\ times_yielded(iter, n, x) = 1
          /\ \A x \in pairs :
               times_yielded(iter, n, x) = 0 =>
                 \E u \in x.ends : m.jt.cliques[u] \subseteq x.new_clique

\* A second iterator iter_a, default-constructed as the end iterator, is
\* copy-constructed from iter or assigned from iter between increments of
\* iter.
CopyNext ==
  \/ \E ub \in UndefinedOutcomes : Increment(ub)
  \/ CopyConstruct
  \/ AssignIterator

SpecIteratorCopy == InitIterator /\ [][CopyNext]_vars

\* What a caller can observe of an iterator: whether it compares equal to
\* the end iterator, and the model it yields.
observed(it) ==
  [at_end |-> operator_eq(it, end_iterator), model |-> it.model,
   stopped |-> it.fault # "none"]

\* The iterators a and b are in the same iteration state.
same_iteration_state(a, b) ==
  /\ observed(a) = observed(b)
  /\ \A ub \in UndefinedOutcomes :
       observed(operator_pp(a, ub)) = observed(operator_pp(b, ub))

\* C29: after the assignment a = b, a is in the same iteration state as b:
\* a compares equal to the end iterator exactly when b does, *a equals *b,
\* and incrementing a advances it exactly as incrementing b would.
C29_AsStated == [][AssignIterator => same_iteration_state(iter_a', iter')]_vars

\* The default-constructed iterator after an assignment from an iterator
\* that is at a candidate: it yields the same model and still compares
\* equal to the end iterator.
C29_Witness ==
  /\ iter_a.assigned
  /\ iter_a.model = iter.model
  /\ at_candidate(iter)
  /\ operator_eq(iter_a, end_iterator)

\* The copy constructor gives the same iteration state; the assignment
\* gives it whenever the two iterators agreed on done before it.
C29_CopyConstructor == [][CopyConstruct => same_iteration_state(iter_a', iter')]_vars

AssignKeepsDone ==
  [][AssignIterator =>
       /\ iter_a'.done = iter_a.done
       /\ iter_a'.model = iter'.model
       /\ (iter_a.done = iter.done /\ (\A k \in InfoTypes :
                                         iter_a.info[k] # NULL
                                           => iter.info[k] # NULL))
            => same_iteration_state(iter_a', iter')]_vars

(***************************************************************************)
(* linear_regression: the iterative learners.  The training objective and  *)
(* convergence_zero are counted in units of one unit of objective; the     *)
(* optimizer (gradient_descent or conjugate_gradient) is outside the       *)
(* learner: its step() succeeds or not, and a successful step leaves any   *)
(* objective.                                                              *)
(***************************************************************************)
MaxObjective == 3
MaxConvergenceZero == 2
MaxInitIterations == 2
MaxDebug == 2
MaxIterations == 4

Objectives == 0..MaxObjective

fabs(x) == IF x < 0 THEN 0 - x ELSE x

\* The record of a call of step() on the learner r that returned ret.
step_call(r, optimizer_step, ret) ==
  [called |-> TRUE, prev_train_obj |-> r.train_obj,
   prev_iteration |-> r.iteration_, optimizer_step |-> optimizer_step,
   ret |-> ret, threw |-> FALSE]

\* step_gradient_descent(): ok and objective are the results of
\* gradient_descent_ptr->step() and gradient_descent_ptr->objective().
step_gradient_descent(r, ok, objective) ==
  IF ~r.optimizer_ptr THEN [r EXCEPT !.last = step_call(r, FALSE, FALSE)]
  ELSE IF ~ok THEN [r EXCEPT !.last = step_call(r, FALSE, FALSE)]
  ELSE LET prev_train_obj == r.train_obj
           q == [r EXCEPT !.train_obj = objective]
       IN  IF fabs(q.train_obj - prev_train_obj) < r.convergence_zero
             THEN IF r.debug > 0
                    THEN [q EXCEPT !.last = step_call(r, TRUE, FALSE)]
                    ELSE [q EXCEPT !.iteration_ = r.iteration_ + 1,
                                   !.last = step_call(r, TRUE, TRUE)]
             ELSE [q EXCEPT !.iteration_ = r.iteration_ + 1,
                            !.last = step_call(r, TRUE, TRUE)]

\* step_conjugate_gradient(): ok and objective are the results of
\* conjugate_gradient_ptr->step() and conjugate_gradient_ptr->objective().
step_conjugate_gradient(r, ok, objective) ==
  IF ~r.optimizer_ptr THEN [r EXCEPT !.last = step_call(r, FALSE, FALSE)]
  ELSE IF ~ok THEN [r EXCEPT !.last = step_call(r, FALSE, FALSE)]
  ELSE LET prev_train_obj == r.train_obj
           q == [r EXCEPT !.train_obj = objective]
       IN  IF fabs(q.train_obj - prev_train_obj) < r.convergence_zero
             THEN IF r.debug > 0
                    THEN [q EXCEPT !.last = step_call(r, TRUE, FALSE)]
                    ELSE [q EXCEPT !.iteration_ = r.iteration_ + 1,
                                   !.last = step_call(r, TRUE, TRUE)]
             ELSE [q EXCEPT !.iteration_ = r.iteration_ + 1,
                            !.last = step_call(r, TRUE, TRUE)]

\* linear_regression::step().
regression_step(r, ok, objective) ==
  CASE r.opt_method = 0 ->
         [r EXCEPT !.last = [step_call(r, FALSE, FALSE)
                               EXCEPT !.threw = TRUE]]
    [] r.opt_method = 1 -> step_gradient_descent(r, ok, objective)
    [] r.opt_method = 2 -> step_conjugate_gradient(r, ok, objective)

\* init(ds, own_data) up to its loop: the optimizer of an iterative method
\* is allocated; matrix inversion trains at once.
regression_init(params, train_obj) ==
  [opt_method |-> params.opt_method, debug |-> params.debug,
   convergence_zero |-> params.convergence_zero,
   init_iterations |-> params.init_iterations, iteration_ |-> 0,
   train_obj |-> train_obj, optimizer_ptr |-> params.opt_method # 0,
   pc |-> IF params.opt_method # 0 THEN "init_loop" ELSE "trained",
   last |-> NoStep]

restOfRegression ==
  <<jt, lastOp, engineVars, factorVars, tp, iterVars>>

\* One turn of the loop of init(): while (iteration_ < init_iterations)
\* if (!step()) break.
InitLoopStep(ok, objective) ==
  /\ lr.pc = "init_loop"
  /\ lr.iteration_ < lr.init_iterations
  /\ LET r == regression_step(lr, ok, objective)
     IN  lr' = [r EXCEPT !.pc = IF r.last.ret THEN "init_loop"
                                ELSE "trained"]
  /\ UNCHANGED restOfRegression

\* The loop of init() ends on its condition.
InitLoopExit ==
  /\ lr.pc = "init_loop"
  /\ ~(lr.iteration_ < lr.init_iterations)
  /\ lr' = [lr EXCEPT !.pc = "trained"]
  /\ UNCHANGED restOfRegression

\* A call of step() by the user of the trained learner.
RegressionStep(ok, objective) ==
  /\ lr.pc = "trained"
  /\ lr.iteration_ < MaxIterations
  /\ lr' = regression_step(lr, ok, objective)
  /\ UNCHANGED restOfRegression

InitRegression ==
  /\ jt = empty_tree
  /\ lastOp = NoEdit
  /\ EngineUnbuilt
  /\ fx = constant_table_factor(Zero)
  /\ fy = constant_table_factor(Zero)
  /\ call = NoCall
  /\ ProcessIdle
  /\ IteratorIdle
  /\ \E opt_method \in 0..2, debug \in 0..MaxDebug,
        convergence_zero \in 0..MaxConvergenceZero,
        init_iterations \in 0..MaxInitIterations, train_obj \in Objectives :
       lr = regression_init([opt_method |-> opt_method, debug |-> debug,
                             convergence_zero |-> convergence_zero,
                             init_iterations |-> init_iterations],
                            train_obj)

RegressionNext ==
  \/ \E ok \in BOOLEAN, objective \in Objectives : InitLoopStep(ok, objective)
  \/ InitLoopExit
  \/ \E ok \in BOOLEAN, objective \in Objectives :
       RegressionStep(ok, objective)

SpecRegression == InitRegression /\ [][RegressionNext]_vars

\* The last call of step() on r made an optimizer step.
stepped(r) == r.last.called /\ r.last.optimizer_step

\* The optimizer step of the last call changed the training objective by
\* less than convergence_zero.
converged(r) ==
  /\ stepped(r)
  /\ fabs(r.train_obj - r.last.prev_train_obj) < r.convergence_zero

\* step() behaves on r as a convergence test: false and no count on
\* convergence, true and one more iteration on any other successful step;
\* the loop of init() goes on only after a step that did not converge, and
\* for at most init_iterations steps.
stops_at_convergence(r) ==
  /\ converged(r) =>
       ~r.last.ret /\ r.iteration_ = r.last.prev_iteration
  /\ (stepped(r) /\ ~converged(r)) =>
       r.last.ret /\ r.iteration_ = r.last.prev_iteration + 1
  /\ (r.pc = "init_loop" /\ r.last.called) => ~converged(r)
  /\ r.pc = "init_loop" => r.iteration_ <= r.init_iterations

\* C30: with opt_method 1 or 2, step() returns false and leaves the
\* iteration count unchanged whenever the absolute change in training
\* objective produced by the step is below convergence_zero, at every
\* debug level; otherwise a successful optimizer step returns true and
\* adds one to the iteration count, so the loop of init() stops at
\* convergence or after init_iterations steps, whichever comes first.
C30_AsStated == lr.opt_method \in {1, 2} => stops_at_convergence(lr)

\* With debug = 0, a step of the loop of init() that left the objective
\* unchanged was counted as an iteration and returned true.
C30_Witness ==
  /\ lr.opt_method \in {1, 2}
  /\ lr.debug = 0
  /\ lr.pc = "init_loop"
  /\ converged(lr)
  /\ lr.train_obj = lr.last.prev_train_obj
  /\ lr.last.ret
  /\ lr.iteration_ = lr.last.prev_iteration + 1

\* The statement holds at every debug level above 0.
StopsAtConvergenceWhenDebugging ==
  (lr.opt_method \in {1, 2} /\ lr.debug > 0) => stops_at_convergence(lr)

\* With debug = 0 every successful optimizer step is counted and returns
\* true, converged or not; the loop of init() still ends within
\* init_iterations steps.
CountsEveryStepWithoutDebug ==
  (lr.opt_method \in {1, 2} /\ lr.debug = 0) =>
    /\ stepped(lr) =>
         lr.last.ret /\ lr.iteration_ = lr.last.prev_iteration + 1
    /\ lr.pc = "init_loop" => lr.iteration_ <= lr.init_iterations

=============================================================================
